---------------------------- MODULE Spec2Model ----------------------------
(***************************************************************************)
(* Model of the PDF statement parser service (services/pdf_parser):        *)
(*   - parsers/__init__.py   multi-signal detector (detect_and_parse)      *)
(*   - main.py               the /parse handler (parse_pdf)                *)
(*   - parsers/opendataloader_fallback.py   generic fallback extractor     *)
(*   - parsers/bancolombia_credit_card.py   currency-section splitter      *)
(*                                                                         *)
(* Text is modelled as a set of phrases (one phrase per line of the page   *)
(* text).  Found[p] lists the substring / regular-expression patterns of   *)
(* the detector signals that occur in phrase p; a pattern occurs in a text *)
(* iff it occurs in one of its phrases.                                    *)
(***************************************************************************)
EXTENDS Integers, Sequences, FiniteSets, TLC

VARIABLES
    pc,             \* control point of the /parse request (parse_pdf)
    sample_text,    \* detect_and_parse: text sampled from the leading pages
    extracted_chars,\* detect_and_parse: len(sample_text.strip()) after pdfplumber
    best,           \* detect_and_parse: (best_score, best_detector) or NoBest
    primary,        \* outcome of detect_and_parse as seen by parse_pdf
    calls,          \* the stage / provider invocations made so far, in order
    attempt,        \* _extract_text_via_cli: index of the command being tried
    extracted_text, \* try_parse_with_opendataloader: text from the CLI
    fallback,       \* outcome of _attempt_fallback_parse
    response,       \* the HTTP response of parse_pdf
    page_texts,     \* parse_credit_card: text of every page, in order
    cc,             \* parse_credit_card: locals and returned list
    input,           \* the input handed to a helper or to one profile
    output          \* what that helper or profile returned

vars == << pc, sample_text, extracted_chars, best, primary, calls, attempt,
           extracted_text, fallback, response, page_texts, cc, input, output >>

\* ------------------------------------------------------------------ bounds
\* Most phrases a sampled text holds.
MaxPhrases == 2
\* Most lines the text extracted by the fallback CLI holds.
MaxFbLines == 2
MaxCliLines == 1
MaxPages == 3
MaxAmountLen == 4
MaxLoanLines == 2
MaxYearSpan == 2

\* Python's None; a present optional number or string x is Some(x)
None == << >>
Some(x) == << x >>
Val(o) == o[1]

\* ---------------------------------------------------------------- detector
\* parsers/__init__.py.  Phrase ids are ASCII; the text each stands for:
\*   BLANK "   ", bancolombia_lower "Bancolombia", DESDE_HASTA
\*   "DESDE: 2025/12/01 HASTA: 2026/01/31", NUMERO_123 "NÚMERO 123",
\*   TARJETA_MASK "TARJETA: ****1234", ESTADO_EN "ESTADO DE CUENTA EN: PESOS",
\*   OBLIGACION_NO "OBLIGACIÓN Nº: 123", BULLET_1234 "• 1234",
\*   LOAN_ROW "12345678901 3 DE 24", NO_DEL_CREDITO "NO DEL CRÉDITO: 123-4",
\*   DIGITS16 "1234567890123456", DATE_MMM "15/ENE/2026",
\*   BANCO DE BOGOTA_ACCENT "BANCO DE BOGOTÁ", TARJETA_NUMERO
\*   "TARJETA NÚMERO 1234", COMPRAS_ROW "COMPRAS 1,000.00 2,000.00",
\*   NUMERO_DE_CREDITO "NÚMERO DE CRÉDITO 123"; every other id is the phrase
\*   itself (accents dropped in the id only).
\* Pattern ids starting with RE_ are the regular expressions of the signals.
\* phrase -> patterns occurring in it (case-sensitive search)
Found ==
       "BLANK"                            :> {}
    @@ "HOLA"                             :> {}
    @@ "bancolombia_lower"                :> {}
    @@ "BANCOLOMBIA"                      :> {"BANCOLOMBIA"}
    @@ "CUENTA DE AHORROS"                :> {"CUENTA DE AHORROS"}
    @@ "DESDE_HASTA"                      :> {"RE_DESDE_HASTA"}
    @@ "SALDO ANTERIOR"                   :> {"SALDO ANTERIOR"}
    @@ "TOTAL ABONOS"                     :> {"TOTAL ABONOS"}
    @@ "NUMERO_123"                       :> {"RE_NUMERO_DIGITS"}
    @@ "TARJETA_MASK"                     :> {"RE_TARJETA_MASK", "TARJETA"}
    @@ "ESTADO_EN"                        :> {"RE_ESTADO_DE_CUENTA_EN"}
    @@ "NUEVOS MOVIMIENTOS"               :> {"NUEVOS MOVIMIENTOS"}
    @@ "OBLIGACION_NO"                    :> {"RE_OBLIGACION_NO"}
    @@ "LINEA DE CREDITO"                 :> {"CR", "LINEA DE CREDITO"}
    @@ "INFORMACION DEL CREDITO"          :> {"CR", "INFORMACION DEL CREDITO"}
    @@ "NU COLOMBIA"                      :> {"NU COLOMBIA"}
    @@ "BULLET_1234"                      :> {"BULLET", "RE_BULLET_DIGITS"}
    @@ "PERIODO FACTURADO"                :> {"RE_PERIODO_FACTURADO"}
    @@ "TU CUPO DEFINIDO"                 :> {"TU CUPO DEFINIDO"}
    @@ "LULO BANK"                        :> {"LULO BANK"}
    @@ "LOAN_ROW"                         :> {"RE_LOAN_ROW"}
    @@ "MONTO SOLICITADO"                 :> {"MONTO SOLICITADO"}
    @@ "MIS PAGOS"                        :> {"MIS PAGOS"}
    @@ "DAVIVIENDA"                       :> {"DAVIVIENDA"}
    @@ "NO_DEL_CREDITO"                   :> {"CR", "RE_NO_DEL_CREDITO"}
    @@ "PAGUESE ANTES DEL"                :> {"RE_PAGUESE_ANTES_DEL"}
    @@ "BANCO POPULAR"                    :> {"BANCO POPULAR"}
    @@ "DIGITS16"                         :> {"RE_DIGITS16"}
    @@ "DATE_MMM"                         :> {"RE_DATE_MMM"}
    @@ "FALABELLA"                        :> {"FALABELLA"}
    @@ "PAGA ANTES DEL"                   :> {"RE_PAGA_ANTES_DEL"}
    @@ "HAS UTILIZADO"                    :> {"RE_HAS_UTILIZADO"}
    @@ "CUPO TOTAL DE TU TARJETA"         :> {"RE_CUPO_TOTAL_DE_TU_TARJETA", "TARJETA"}
    @@ "BANCO DE BOGOTA"                  :> {"BANCO DE BOGOT", "BANCO DE BOGOTA"}
    @@ "BANCO DE BOGOTA_ACCENT"           :> {"BANCO DE BOGOT"}
    @@ "TARJETA_NUMERO"                   :> {"RE_NUMERO_DIGITS", "RE_TARJETA_NUMERO", "TARJETA"}
    @@ "COMPRAS_ROW"                      :> {"RE_COMPRAS_ROW"}
    @@ "VISA"                             :> {"VISA"}
    @@ "NUMERO_DE_CREDITO"                :> {"CR", "RE_NUMERO_DE_CREDITO"}
    @@ "CREDITO DE VIVIENDA"              :> {"CR", "CREDITO DE VIVIENDA"}
    @@ "DATOS GENERALES DEL CREDITO"      :> {"CR", "DATOS GENERALES DEL CREDITO"}
    @@ "CONFIAR"                          :> {"CONFIAR"}
    @@ "RESUMEN DE LA CUENTA AL CORTE"    :> {"RESUMEN DE LA CUENTA AL CORTE"}
    @@ "RESUMEN SALDOS"                   :> {"RESUMEN SALDOS"}

Phrases == DOMAIN Found

\* str.upper() on one phrase
UpperPhrase(p) == IF p = "bancolombia_lower" THEN "BANCOLOMBIA" ELSE p

\* sample_text.upper()
Upper(t) == { UpperPhrase(p) : p \in t }

\* a blank test without the strip(): whitespace counts as text
IsBlankUnstripped(t) == t = {}

\* sample_text.strip() is empty
IsBlank(t) == \A p \in t : p = "BLANK"

\* "pat in t" / re.search(pat, t)
Occurs(pat, t) == \E p \in t : pat \in Found[p]

\* A signal: its weight and its predicate, in disjunctive form (a set of
\* alternatives, each a set of patterns that must all occur).
Signal(w, alts) == [weight |-> w, alts |-> alts]

DetectorSignals ==
       "bancolombia_savings"      :> << Signal(3, {{"BANCOLOMBIA"}}),
           Signal(3, {{"CUENTA DE AHORROS"}}),
           Signal(5, {{"RE_DESDE_HASTA"}}),
           Signal(4, {{"SALDO ANTERIOR", "TOTAL ABONOS"}}),
           Signal(4, {{"RE_NUMERO_DIGITS"}}) >>
    @@ "bancolombia_credit_card"  :> << Signal(3, {{"BANCOLOMBIA"}}),
           Signal(5, {{"RE_TARJETA_MASK"}}),
           Signal(5, {{"RE_ESTADO_DE_CUENTA_EN"}}),
           Signal(3, {{"NUEVOS MOVIMIENTOS"}}) >>
    @@ "bancolombia_loan"         :> << Signal(3, {{"BANCOLOMBIA"}}),
           Signal(5, {{"RE_OBLIGACION_NO"}}),
           Signal(4, {{"LINEA DE CREDITO"}}),
           Signal(4, {{"INFORMACION DEL CREDITO"}}) >>
    @@ "nu_credit_card"           :> << Signal(3, {{"NU FINANCIERA"}, {"NU COLOMBIA"}, {"NUBANK"}}),
           Signal(5, {{"BULLET", "RE_BULLET_DIGITS"}}),
           Signal(5, {{"RE_PERIODO_FACTURADO"}}),
           Signal(4, {{"TU CUPO DEFINIDO"}}) >>
    @@ "lulo_loan"                :> << Signal(3, {{"LULO BANK"}}),
           Signal(5, {{"RE_LOAN_ROW"}}),
           Signal(4, {{"MONTO SOLICITADO"}}),
           Signal(4, {{"MIS PAGOS"}}) >>
    @@ "davivienda_loan"          :> << Signal(3, {{"DAVIVIENDA"}}),
           Signal(5, {{"RE_NO_DEL_CREDITO"}}),
           Signal(5, {{"RE_PAGUESE_ANTES_DEL"}}) >>
    @@ "popular_credit_card"      :> << Signal(3, {{"BANCO POPULAR"}, {"BANCOPOPULAR"}}),
           Signal(5, {{"RE_DIGITS16"}}),
           Signal(4, {{"RE_DATE_MMM"}}) >>
    @@ "falabella_credit_card"    :> << Signal(3, {{"FALABELLA"}, {"CMR"}}),
           Signal(5, {{"RE_PAGA_ANTES_DEL"}}),
           Signal(4, {{"RE_HAS_UTILIZADO"}}),
           Signal(4, {{"RE_CUPO_TOTAL_DE_TU_TARJETA"}}) >>
    @@ "bogota_credit_card"       :> << Signal(3, {{"BANCO DE BOGOT"}, {"BANCODEBOGOTA"}}),
           Signal(5, {{"RE_TARJETA_NUMERO"}}),
           Signal(4, {{"RE_COMPRAS_ROW"}}),
           Signal(3, {{"TARJETA"}, {"MASTERCARD"}, {"VISA"}}) >>
    @@ "bogota_loan"              :> << Signal(3, {{"BANCO DE BOGOT"}, {"BANCODEBOGOTA"}}),
           Signal(5, {{"RE_NUMERO_DE_CREDITO"}}),
           Signal(4, {{"CREDITO DE VIVIENDA"}}),
           Signal(4, {{"DATOS GENERALES DEL CREDITO"}}) >>
    @@ "bogota_savings"           :> << Signal(3, {{"BANCO DE BOGOT"}, {"BANCODEBOGOTA"}}),
           Signal(3, {{"BANCO DE BOGOTA"}}) >>
    @@ "confiar_credit_card"      :> << Signal(5, {{"CONFIAR"}}),
           Signal(5, {{"RESUMEN DE LA CUENTA AL CORTE"}}),
           Signal(5, {{"RESUMEN SALDOS"}}),
           Signal(3, {{"TARJETA", "CR"}}) >>

DETECTORS ==
    << "bancolombia_savings", "bancolombia_credit_card", "bancolombia_loan",
       "nu_credit_card", "lulo_loan", "davivienda_loan", "popular_credit_card",
       "falabella_credit_card", "bogota_credit_card", "bogota_loan",
       "bogota_savings", "confiar_credit_card" >>

MIN_CONFIDENCE == 6

\* fn(sample_upper) for one signal
SignalTrue(sig, t) == \E alt \in sig.alts : \A pat \in alt : Occurs(pat, t)

RECURSIVE SumWeights(_, _)
SumWeights(sigs, t) ==
    IF sigs = << >> THEN 0
    ELSE (IF SignalTrue(Head(sigs), t) THEN Head(sigs).weight ELSE 0)
         + SumWeights(Tail(sigs), t)

\* score = sum(w for w, fn in detector["signals"] if fn(sample_upper))
Score(name, t) == SumWeights(DetectorSignals[name], t)

\* the loop building `scored`: (score, detector) for every detector with score > 0
RECURSIVE ScoreAll(_, _)
ScoreAll(dets, t) ==
    IF dets = << >> THEN << >>
    ELSE LET s == Score(Head(dets), t)
         IN  (IF s > 0 THEN << << s, Head(dets) >> >> ELSE << >>)
             \o ScoreAll(Tail(dets), t)

\* an unstable insertion: among equal scores the later registration comes first
RECURSIVE InsertDescLastWins(_, _)
InsertDescLastWins(x, s) ==
    IF s = << >> THEN << x >>
    ELSE IF Head(s)[1] > x[1] THEN << Head(s) >> \o InsertDescLastWins(x, Tail(s))
    ELSE << x >> \o s

\* list.sort(key=lambda x: x[0], reverse=True): stable, descending by score
RECURSIVE InsertDesc(_, _)
InsertDesc(x, s) ==
    IF s = << >> THEN << x >>
    ELSE IF Head(s)[1] >= x[1] THEN << Head(s) >> \o InsertDesc(x, Tail(s))
    ELSE << x >> \o s

RECURSIVE SortDesc(_)
SortDesc(s) ==
    IF s = << >> THEN << >>
    ELSE InsertDesc(s[Len(s)], SortDesc(SubSeq(s, 1, Len(s) - 1)))

\* scored after the sort, for a registry `dets` and raw sample text t
Scored(dets, t) == SortDesc(ScoreAll(dets, Upper(t)))

NoBest == << 0, "" >>

\* the head of `scored` taken without the sort
BestOfUnsorted(dets, t) ==
    LET scored == ScoreAll(dets, Upper(t))
    IN  IF scored = << >> THEN NoBest ELSE scored[1]

\* scored[0], or NoBest when nothing scored
BestOf(dets, t) ==
    LET scored == Scored(dets, t)
    IN  IF scored = << >> THEN NoBest ELSE scored[1]

\* ------------------------------------------------- generic fallback extractor
\* parsers/opendataloader_fallback.py.  The text the CLI extracts is a sequence
\* of lines; FbLine gives, for each line of the vocabulary, what the regular
\* expressions of the module find in it:
\*   date     _DATE_START_RE + _parse_date_token: << day, month >> or None
\*   desc     the text between the date and the first amount (desclen: its length)
\*   nums     the _AMOUNT_RE matches after the date, as _parse_mixed_number reads them
\*   allnums  the _AMOUNT_RE matches of the whole line (the date's digits come first)
\*   pcts     the matches of the percentage expression of _find_percentage_after
\*   labels   the keywords of _extract_summary / _extract_*_metadata in the line
\*            (a lower-case letter stands for an accented capital)
\*   typekw   "loan" / "credit": a keyword of _detect_statement_type occurs
\*   acct     the _ACCOUNT_RE capture
\*   width    the number of characters of the line
\* Lines: TX_NOMINA "15/01 PAGO NOMINA 1,000.00 5,000.00", TX_COMPRA
\* "16/01 COMPRA TIENDA -200.00", TX_ZERO "17/01 AJUSTE 0.00 5,000.00",
\* TX_SHORT "18/01 AB 50.00",
\* SALDO_ACTUAL "SALDO ACTUAL $ 5,000.00", SALDO_ANTERIOR "SALDO ANTERIOR",
\* CUPO_TOTAL "CUPO TOTAL 3.000.000", DISPONIBLE_0 "Cupo disponible $ 0",
\* TASA_MORA "TASA MORA 25%", CREDITO "CRÉDITO HIPOTECARIO", CUENTA
\* "CUENTA 1234567", HOLA "HOLA", FILLER 200 letters; and, for the
\* de-duplication of transactions, TX_nomina "15/01 Pago Nomina 1,000.00
\* 7,000.00" and TX_REVERSO "16/01 COMPRA TIENDA 200.00".
FbLine ==
       "TX_NOMINA" :>
          [date |-> << 15, 1 >>, desc |-> "PAGO NOMINA", desclen |-> 11, nums |-> << 1000, 5000 >>, allnums |-> << 15, 1, 1000, 5000 >>, pcts |-> << >>,
           labels |-> {}, typekw |-> {}, acct |-> None, width |-> 35]
    @@ "TX_COMPRA" :>
          [date |-> << 16, 1 >>, desc |-> "COMPRA TIENDA", desclen |-> 13, nums |-> << -200 >>, allnums |-> << 16, 1, -200 >>, pcts |-> << >>,
           labels |-> {}, typekw |-> {}, acct |-> None, width |-> 27]
    @@ "TX_nomina" :>
          [date |-> << 15, 1 >>, desc |-> "Pago Nomina", desclen |-> 11, nums |-> << 1000, 7000 >>, allnums |-> << 15, 1, 1000, 7000 >>, pcts |-> << >>,
           labels |-> {}, typekw |-> {}, acct |-> None, width |-> 35]
    @@ "TX_REVERSO" :>
          [date |-> << 16, 1 >>, desc |-> "COMPRA TIENDA", desclen |-> 13, nums |-> << 200 >>, allnums |-> << 16, 1, 200 >>, pcts |-> << >>,
           labels |-> {}, typekw |-> {}, acct |-> None, width |-> 26]
    @@ "TX_ZERO" :>
          [date |-> << 17, 1 >>, desc |-> "AJUSTE", desclen |-> 6, nums |-> << 0, 5000 >>, allnums |-> << 17, 1, 0, 5000 >>, pcts |-> << >>,
           labels |-> {}, typekw |-> {}, acct |-> None, width |-> 26]
    @@ "TX_SHORT" :>
          [date |-> << 18, 1 >>, desc |-> "AB", desclen |-> 2, nums |-> << 50 >>, allnums |-> << 18, 1, 50 >>, pcts |-> << >>,
           labels |-> {}, typekw |-> {}, acct |-> None, width |-> 14]
    @@ "SALDO_ACTUAL" :>
          [date |-> None, desc |-> None, desclen |-> 0, nums |-> << >>, allnums |-> << 5000 >>, pcts |-> << >>,
           labels |-> {"SALDO ACTUAL"}, typekw |-> {}, acct |-> None, width |-> 23]
    @@ "SALDO_ANTERIOR" :>
          [date |-> None, desc |-> None, desclen |-> 0, nums |-> << >>, allnums |-> << >>, pcts |-> << >>,
           labels |-> {"SALDO ANTERIOR"}, typekw |-> {}, acct |-> None, width |-> 14]
    @@ "CUPO_TOTAL" :>
          [date |-> None, desc |-> None, desclen |-> 0, nums |-> << >>, allnums |-> << 3000000 >>, pcts |-> << >>,
           labels |-> {"CUPO TOTAL"}, typekw |-> {"credit"}, acct |-> None, width |-> 20]
    @@ "DISPONIBLE_0" :>
          [date |-> None, desc |-> None, desclen |-> 0, nums |-> << >>, allnums |-> << 0 >>, pcts |-> << >>,
           labels |-> {"CUPO DISPONIBLE", "DISPONIBLE"}, typekw |-> {"credit"}, acct |-> None, width |-> 19]
    @@ "TASA_MORA" :>
          [date |-> None, desc |-> None, desclen |-> 0, nums |-> << >>, allnums |-> << 25 >>, pcts |-> << 25 >>,
           labels |-> {"TASA MORA"}, typekw |-> {}, acct |-> None, width |-> 13]
    @@ "CREDITO" :>
          [date |-> None, desc |-> None, desclen |-> 0, nums |-> << >>, allnums |-> << >>, pcts |-> << >>,
           labels |-> {}, typekw |-> {"loan"}, acct |-> None, width |-> 19]
    @@ "CUENTA" :>
          [date |-> None, desc |-> None, desclen |-> 0, nums |-> << >>, allnums |-> << 1234567 >>, pcts |-> << >>,
           labels |-> {}, typekw |-> {}, acct |-> Some("1234567"), width |-> 14]
    @@ "HOLA" :>
          [date |-> None, desc |-> None, desclen |-> 0, nums |-> << >>, allnums |-> << >>, pcts |-> << >>,
           labels |-> {}, typekw |-> {}, acct |-> None, width |-> 4]
    @@ "FILLER" :>
          [date |-> None, desc |-> None, desclen |-> 0, nums |-> << >>, allnums |-> << >>, pcts |-> << >>,
           labels |-> {}, typekw |-> {}, acct |-> None, width |-> 200]

\* the two lines met only where transactions are de-duplicated
DedupOnlyLineIds == {"TX_nomina", "TX_REVERSO"}

\* the lines of the texts the fallback is given in the request
FbLineIds == DOMAIN FbLine \ DedupOnlyLineIds

\* character windows searched after a keyword
AMOUNT_WINDOW == 180
RATE_WINDOW == 120

Abs(x) == IF x < 0 THEN -x ELSE x

RECURSIVE Concat(_)
Concat(ss) == IF ss = << >> THEN << >> ELSE Head(ss) \o Concat(Tail(ss))

\* offset of the first character of line i in the text (lines joined by "\n")
RECURSIVE StartOffset(_, _)
StartOffset(text, i) ==
    IF i = 1 THEN 0 ELSE StartOffset(text, i - 1) + FbLine[text[i - 1]].width + 1

\* upper_text.find(keyword): the first line holding the keyword, 0 for -1
FindKeyword(text, keyword) ==
    IF \E i \in 1..Len(text) : keyword \in FbLine[text[i]].labels
    THEN CHOOSE i \in 1..Len(text) :
            /\ keyword \in FbLine[text[i]].labels
            /\ \A j \in 1..(i - 1) : keyword \notin FbLine[text[j]].labels
    ELSE 0

\* the matches of a pattern inside upper_text[idx : idx + window], idx being the
\* keyword found on line i: those of line i and of the lines starting inside
\* the window
WindowMatches(text, i, window, field) ==
    Concat([ j \in 1..(Len(text) - i + 1) |->
        IF StartOffset(text, i + j - 1) - StartOffset(text, i) < window
        THEN IF field = "allnums" THEN FbLine[text[i + j - 1]].allnums
             ELSE FbLine[text[i + j - 1]].pcts
        ELSE << >> ])

\* for match in matches: value = _parse_mixed_number(match); if value != 0: return abs(value)
RECURSIVE FirstNonZero(_)
FirstNonZero(nums) ==
    IF nums = << >> THEN None
    ELSE IF Head(nums) # 0 THEN Some(Abs(Head(nums)))
    ELSE FirstNonZero(Tail(nums))

RECURSIVE _find_amount_after(_, _)
_find_amount_after(text, keywords) ==
    IF keywords = << >> THEN None
    ELSE LET idx == FindKeyword(text, Head(keywords))
             hit == IF idx = 0 THEN None
                    ELSE FirstNonZero(WindowMatches(text, idx, AMOUNT_WINDOW, "allnums"))
         IN  IF hit # None THEN hit ELSE _find_amount_after(text, Tail(keywords))

RECURSIVE _find_percentage_after(_, _)
_find_percentage_after(text, keywords) ==
    IF keywords = << >> THEN None
    ELSE LET idx == FindKeyword(text, Head(keywords))
             ms  == IF idx = 0 THEN << >>
                    ELSE WindowMatches(text, idx, RATE_WINDOW, "pcts")
         IN  IF ms # << >> /\ Head(ms) > 0 THEN Some(Head(ms))
             ELSE _find_percentage_after(text, Tail(keywords))

\* a metadata object kept even when every field is None
AllNoneNever(rec) == FALSE

AllNone(rec) == \A f \in DOMAIN rec : rec[f] = None

_extract_summary(text) ==
    LET rec == [previous_balance |-> _find_amount_after(text, << "SALDO ANTERIOR", "SALDO INICIAL" >>),
                total_credits |-> _find_amount_after(text, << "TOTAL ABONOS", "TOTAL CReDITOS", "TOTAL CREDITOS" >>),
                total_debits |-> _find_amount_after(text, << "TOTAL CARGOS", "TOTAL DeBITOS", "TOTAL DEBITOS" >>),
                final_balance |-> _find_amount_after(text, << "SALDO ACTUAL", "SALDO FINAL", "NUEVO SALDO" >>),
                purchases_and_charges |-> _find_amount_after(text, << "COMPRAS DEL MES", "COMPRAS Y CARGOS" >>),
                interest_charged |-> _find_amount_after(text, << "INTERESES CORRIENTES", "INTEReS CORRIENTE", "INTERES CORRIENTE" >>)]
    IN  IF AllNone(rec) THEN None ELSE rec

_extract_credit_metadata(text) ==
    LET rec == [credit_limit |-> _find_amount_after(text, << "CUPO TOTAL", "CUPO DEFINIDO", "LiMITE DE CReDITO" >>),
                available_credit |-> _find_amount_after(text, << "CUPO DISPONIBLE", "DISPONIBLE" >>),
                minimum_payment |-> _find_amount_after(text, << "PAGO MiNIMO", "PAGO MINIMO" >>),
                total_payment_due |-> _find_amount_after(text, << "PAGO TOTAL", "TOTAL A PAGAR" >>)]
    IN  IF AllNone(rec) THEN None ELSE rec

_extract_loan_metadata(text) ==
    LET rec == [remaining_balance |-> _find_amount_after(text, << "SALDO CAPITAL", "SALDO PENDIENTE", "SALDO ACTUAL" >>),
                total_payment_due |-> _find_amount_after(text, << "VALOR A PAGAR", "PAGO TOTAL", "CUOTA DEL PERIODO" >>),
                interest_rate |-> _find_percentage_after(text, << "TASA PACTADA", "TASA INTEReS", "TASA INTERES" >>),
                late_interest_rate |-> _find_percentage_after(text, << "TASA MORA", "INTEReS MORA", "INTERES MORA" >>)]
    IN  IF AllNone(rec) THEN None ELSE rec

_detect_statement_type(text) ==
    IF \E i \in 1..Len(text) : "loan" \in FbLine[text[i]].typekw THEN "loan"
    ELSE IF \E i \in 1..Len(text) : "credit" \in FbLine[text[i]].typekw THEN "credit_card"
    ELSE "savings"

_extract_account_number(text) ==
    IF \E i \in 1..Len(text) : FbLine[text[i]].acct # None
    THEN FbLine[text[CHOOSE i \in 1..Len(text) :
                        /\ FbLine[text[i]].acct # None
                        /\ \A j \in 1..(i - 1) : FbLine[text[j]].acct = None]].acct
    ELSE None

\* one line -> a transaction, or None
_parse_transaction_line(line, statement_type) ==
    LET l == FbLine[line]
        amount_value == Head(l.nums)
    IN  IF l.date = None THEN None
        ELSE IF l.nums = << >> THEN None
        ELSE IF amount_value = 0 THEN None
        ELSE IF l.desclen < 3 THEN None
        ELSE [date |-> l.date,
              description |-> l.desc,
              amount |-> Abs(amount_value),
              direction |-> IF statement_type = "savings"
                            THEN (IF amount_value > 0 THEN "INFLOW" ELSE "OUTFLOW")
                            ELSE (IF amount_value < 0 THEN "INFLOW" ELSE "OUTFLOW"),
              balance |-> IF Len(l.nums) > 1 /\ l.nums[Len(l.nums)] # 0
                          THEN Some(Abs(l.nums[Len(l.nums)])) ELSE None]

\* str.lower() on the descriptions of the sample lines
Lower ==
       "PAGO NOMINA" :> "pago nomina"
    @@ "Pago Nomina" :> "pago nomina"
    @@ "COMPRA TIENDA" :> "compra tienda"
    @@ "AJUSTE" :> "ajuste"
    @@ "AB" :> "ab"

\* a key that tells descriptions apart by their case
CaseSensitiveKey(tx) == << tx.date, tx.description, tx.amount, tx.direction >>

\* _extract_transactions, lines 291-296: the key of a transaction
TxKey(tx) == << tx.date, Lower[tx.description], tx.amount, tx.direction >>

\* the loop of _extract_transactions: parsed lines, first occurrence of a key kept
RECURSIVE ExtractLoop(_, _, _)
ExtractLoop(lines, statement_type, parsed) ==
    IF lines = << >> THEN parsed
    ELSE LET tx == _parse_transaction_line(Head(lines), statement_type)
         IN  IF tx = None \/ \E k \in 1..Len(parsed) : TxKey(parsed[k]) = TxKey(tx)
             THEN ExtractLoop(Tail(lines), statement_type, parsed)
             ELSE ExtractLoop(Tail(lines), statement_type, Append(parsed, tx))

_extract_transactions(lines, statement_type) == ExtractLoop(lines, statement_type, << >>)

_build_statements_from_text(text) ==
    LET statement_type == _detect_statement_type(text)
        transactions == _extract_transactions(text, statement_type)
        summary == _extract_summary(text)
        credit_meta == IF statement_type # "credit_card" THEN None
                       ELSE _extract_credit_metadata(text)
        loan_meta == IF statement_type # "loan" THEN None
                     ELSE _extract_loan_metadata(text)
        has_metadata == summary # None \/ credit_meta # None \/ loan_meta # None
    IN  IF text = << >> THEN << >>
        ELSE IF transactions = << >> /\ ~has_metadata THEN << >>
        ELSE << [statement_type |-> statement_type,
                 account_number |-> _extract_account_number(text),
                 summary |-> summary,
                 credit_card_metadata |-> credit_meta,
                 loan_metadata |-> loan_meta,
                 transactions |-> transactions] >>

\* ------------------------------------------------------------ input domains
\* the texts of at most k phrases
RECURSIVE TextsUpTo(_)
TextsUpTo(k) ==
    IF k = 0 THEN { {} }
    ELSE LET S == TextsUpTo(k - 1)
         IN  S \cup { T \cup {p} : T \in S, p \in Phrases }

SampleTexts == TextsUpTo(MaxPhrases)

\* the non-empty texts of at most k lines
TextsOfLines(k) == UNION { [1..n -> FbLineIds] : n \in 1..k }

\* the texts given to _build_statements_from_text on its own
FbTexts == TextsOfLines(MaxFbLines)

\* the texts the fallback CLI leaves within a /parse request
CliTexts == TextsOfLines(MaxCliLines)

\* --------------------------------------------------- the /parse request
\* What best_detector["parse"](pdf_path, password) can do, per detector.
\* parse_savings and parse_credit_card take no `password` parameter, so the
\* keyword call of their DETECTORS entry raises TypeError; parse_bogota_savings
\* never finds a transaction and raises ValueError unless a provider call raises
\* first; every other profile returns a list of exactly one statement or raises.
ProfileOutcomes(name) ==
    IF name \in {"bancolombia_savings", "bancolombia_credit_card"} THEN {"TypeError"}
    ELSE IF name = "bogota_savings" THEN {"ValueError", "Exception"}
    ELSE {"ok", "ValueError", "Exception"}

NoPrimary == [kind |-> "none", source |-> "", detector |-> "", score |-> 0,
              statements |-> << >>]
NoFallback == [tried |-> FALSE, enabled |-> FALSE, binary |-> FALSE,
               statements |-> << >>]
NoResponse == [status |-> 0, type |-> "", statements |-> << >>, message |-> << >>]
CcIdle == [pc |-> "idle", sections |-> << >>, current_currency |-> None,
           card_last_four |-> None, results |-> << >>]

Call(op, arg) == << op, arg >>

Init ==
    /\ pc = "start"
    /\ sample_text = {}
    /\ extracted_chars = 0
    /\ best = NoBest
    /\ primary = NoPrimary
    /\ calls = << >>
    /\ attempt = 0
    /\ extracted_text = << >>
    /\ fallback = NoFallback
    /\ response = NoResponse
    /\ page_texts = << >>
    /\ cc = CcIdle
    /\ input = None
    /\ output = None

ccVars == << page_texts, cc >>
unitVars == << input, output >>
fbVars == << attempt, extracted_text, fallback >>

\* detect_and_parse, line 203: pdfplumber.open raises (wrong password, not a PDF)
OpenFails ==
    /\ pc = "start"
    /\ \E kind \in {"ValueError", "Exception"} :
          primary' = [NoPrimary EXCEPT !.kind = kind, !.source = "open"]
    /\ calls' = Append(calls, Call("detect_and_parse", ""))
    /\ pc' = "raised"
    /\ UNCHANGED << sample_text, extracted_chars, best, response >>
    /\ UNCHANGED fbVars
    /\ UNCHANGED ccVars
    /\ UNCHANGED unitVars

\* detect_and_parse, lines 203-217: the text of the leading pages
ExtractSample ==
    /\ pc = "start"
    /\ \E t \in SampleTexts :
          /\ sample_text' = t
          \* len(sample_text.strip()), counted in phrases
          /\ extracted_chars' = Cardinality({ p \in t : p # "BLANK" })
          /\ pc' = IF IsBlank(t) THEN "ocr" ELSE "score"
    /\ calls' = Append(calls, Call("detect_and_parse", ""))
    /\ UNCHANGED << best, primary, response >>
    /\ UNCHANGED fbVars
    /\ UNCHANGED ccVars
    /\ UNCHANGED unitVars

\* detect_and_parse, line 219, and _ocr_sample_text: the OCR text of the
\* leading pages, or "" when the OCR raised
OcrSample ==
    /\ pc = "ocr"
    /\ \E t \in SampleTexts : sample_text' = t
    /\ calls' = Append(calls, Call("_ocr_sample_text", ""))
    /\ pc' = "score"
    /\ UNCHANGED << extracted_chars, best, primary, response >>
    /\ UNCHANGED fbVars
    /\ UNCHANGED ccVars
    /\ UNCHANGED unitVars

DetectionError(b) ==
    [NoPrimary EXCEPT !.kind = "ValueError", !.source = "detect",
                      !.detector = b[2], !.score = b[1]]

\* detect_and_parse, lines 221-264: score, sort, threshold
ScoreDetectors ==
    /\ pc = "score"
    /\ LET b == BestOf(DETECTORS, sample_text)
       IN  /\ best' = b
           /\ IF b = NoBest \/ b[1] < MIN_CONFIDENCE
              THEN /\ primary' = DetectionError(b)
                   /\ pc' = "raised"
              ELSE /\ primary' = primary
                   /\ pc' = "selected"
    /\ UNCHANGED << sample_text, extracted_chars, calls, response >>
    /\ UNCHANGED fbVars
    /\ UNCHANGED ccVars
    /\ UNCHANGED unitVars

\* detect_and_parse, line 265: best_detector["parse"](pdf_path, password)
ProfileParse ==
    /\ pc = "selected"
    /\ \E out \in ProfileOutcomes(best[2]) :
          IF out = "ok"
          THEN /\ primary' = [kind |-> "ok", source |-> "profile", detector |-> best[2],
                              score |-> best[1],
                              statements |-> << [profile |-> best[2]] >>]
               /\ pc' = "returned"
          ELSE /\ primary' = [kind |-> out, source |-> "profile", detector |-> best[2],
                              score |-> best[1], statements |-> << >>]
               /\ pc' = "raised"
    /\ calls' = Append(calls, Call("parse", best[2]))
    /\ UNCHANGED << sample_text, extracted_chars, best, response >>
    /\ UNCHANGED fbVars
    /\ UNCHANGED ccVars
    /\ UNCHANGED unitVars

\* parse_pdf, lines 120-126: the primary stage returned
RespondSuccess ==
    /\ pc = "returned"
    /\ response' = [status |-> 200, type |-> "", statements |-> primary.statements,
                    message |-> << >>]
    /\ sample_text' = {}
    /\ best' = NoBest
    /\ pc' = "done"
    /\ UNCHANGED << extracted_chars, primary, calls >>
    /\ UNCHANGED fbVars
    /\ UNCHANGED ccVars
    /\ UNCHANGED unitVars

\* the CLI run whenever the binary is found, the environment flag ignored
CliAvailableIgnoringFlag(enabled, binary) == binary

\* try_parse_with_opendataloader, lines 46-55: the CLI is run only when
\* ENABLE_OPENDATALOADER_FALLBACK is set and the binary is found
CliAvailable(enabled, binary) == enabled /\ binary

\* parse_pdf, lines 127-133 and 142-148: an exception of the primary stage is
\* caught and _attempt_fallback_parse calls try_parse_with_opendataloader
\* (lines 43-64), which returns None at once unless the CLI is available.
\* `enabled` is the environment flag, `binary` whether the CLI is installed.
AttemptFallback ==
    /\ pc = "raised"
    /\ calls' = Append(calls, Call("try_parse_with_opendataloader", ""))
    /\ sample_text' = {}
    /\ best' = NoBest
    /\ \E enabled \in BOOLEAN, binary \in BOOLEAN :
          /\ fallback' = [tried |-> TRUE, enabled |-> enabled, binary |-> binary,
                          statements |-> << >>]
          /\ IF CliAvailable(enabled, binary)
             THEN /\ pc' = "cli"
                  /\ attempt' = 1
             ELSE /\ pc' = "fb_done"
                  /\ attempt' = attempt
    /\ UNCHANGED << extracted_chars, primary, response, extracted_text >>
    /\ UNCHANGED ccVars
    /\ UNCHANGED unitVars

\* _extract_text_via_cli, lines 101-121 and 132-140: the command raises (a
\* timeout included), exits non-zero or leaves no text; the next command of
\* `attempts` is tried, and None is returned after the second
CliFails ==
    /\ pc = "cli"
    /\ calls' = Append(calls, Call("subprocess.run", ""))
    /\ IF attempt < 2
       THEN /\ attempt' = attempt + 1
            /\ pc' = "cli"
       ELSE /\ attempt' = attempt
            /\ pc' = "fb_done"
    /\ UNCHANGED << sample_text, extracted_chars, best, primary, response,
                    extracted_text, fallback >>
    /\ UNCHANGED ccVars
    /\ UNCHANGED unitVars

\* _extract_text_via_cli, lines 123-138: the command left text
CliYieldsText ==
    /\ pc = "cli"
    /\ calls' = Append(calls, Call("subprocess.run", ""))
    /\ \E t \in CliTexts : extracted_text' = t
    /\ pc' = "build"
    /\ UNCHANGED << sample_text, extracted_chars, best, primary, response, attempt,
                    fallback >>
    /\ UNCHANGED ccVars
    /\ UNCHANGED unitVars

\* try_parse_with_opendataloader, lines 75-79
BuildStatements ==
    /\ pc = "build"
    /\ fallback' = [fallback EXCEPT
                       !.statements = _build_statements_from_text(extracted_text)]
    /\ pc' = "fb_done"
    /\ UNCHANGED << sample_text, extracted_chars, best, primary, calls, response,
                    attempt, extracted_text >>
    /\ UNCHANGED ccVars
    /\ UNCHANGED unitVars

\* a failed fallback sends the document through detection again
RespondAfterFallbackRetrying ==
    /\ pc = "fb_done"
    /\ IF fallback.statements # << >>
       THEN /\ response' = [status |-> 200, type |-> "", statements |-> fallback.statements,
                            message |-> << >>]
            /\ pc' = "done"
       ELSE /\ response' = response
            /\ pc' = "start"
    /\ UNCHANGED << sample_text, extracted_chars, best, primary, calls >>
    /\ UNCHANGED fbVars
    /\ UNCHANGED ccVars
    /\ UNCHANGED unitVars

\* every failure that the fallback does not recover is an internal error
RespondAfterFallbackInternal ==
    /\ pc = "fb_done"
    /\ response' =
          IF fallback.statements # << >>
          THEN [status |-> 200, type |-> "", statements |-> fallback.statements,
                message |-> << >>]
          ELSE [status |-> 500, type |-> "internal_error", statements |-> << >>,
                message |-> << >>]
    /\ pc' = "done"
    /\ UNCHANGED << sample_text, extracted_chars, best, primary, calls >>
    /\ UNCHANGED fbVars
    /\ UNCHANGED ccVars
    /\ UNCHANGED unitVars

\* _attempt_fallback_parse, lines 59-68, and parse_pdf, lines 134-159
RespondAfterFallback ==
    /\ pc = "fb_done"
    /\ response' =
          IF fallback.statements # << >>
          THEN [status |-> 200, type |-> "", statements |-> fallback.statements,
                message |-> << >>]
          ELSE IF primary.kind = "ValueError"
          THEN [status |-> 422, type |-> "unsupported_format", statements |-> << >>,
                message |-> << primary.source, primary.detector, primary.score >>]
          ELSE [status |-> 500, type |-> "internal_error", statements |-> << >>,
                message |-> << >>]
    /\ pc' = "done"
    /\ UNCHANGED << sample_text, extracted_chars, best, primary, calls >>
    /\ UNCHANGED fbVars
    /\ UNCHANGED ccVars
    /\ UNCHANGED unitVars

Next ==
    \/ OpenFails
    \/ ExtractSample
    \/ OcrSample
    \/ ScoreDetectors
    \/ ProfileParse
    \/ RespondSuccess
    \/ AttemptFallback
    \/ CliFails
    \/ CliYieldsText
    \/ BuildStatements
    \/ RespondAfterFallback

Spec == Init /\ [][Next]_vars

\* ------------------------------------------- bancolombia_credit_card.py
\* A page text is a record: `moneda` and `estado` are the labels of its
\* "Moneda: X" and "ESTADO DE CUENTA EN: X" markers, `card` the digits after
\* "Tarjeta: ****", `period` the period line, and `lines` its other lines by
\* kind: "hdr" holds "Nuevos movimientos", "tx" is a well-formed transaction
\* row, "skip" a transaction row holding one of SKIP_PATTERNS, "text" a line
\* without a date.

_currency_label_to_code(label) ==
    IF label = "PESOS" THEN "COP"
    ELSE IF label = "DOLARES" THEN "USD"
    ELSE label

\* CURRENCY_RE is searched first, ESTADO_CURRENCY_RE second
_detect_currency(text) ==
    IF text.moneda # None THEN Some(_currency_label_to_code(Val(text.moneda)))
    ELSE IF text.estado # None THEN Some(_currency_label_to_code(Val(text.estado)))
    ELSE None

\* a section found only while it is the last one opened, so that a currency
\* coming back after another one opens a section of its own
SectionIndexOfLast(sections, code) ==
    IF sections # << >> /\ sections[Len(sections)].currency = code
    THEN Len(sections)
    ELSE 0

\* the index in `sections` of the section of a currency code, 0 if none
SectionIndex(sections, code) ==
    IF \E i \in 1..Len(sections) : sections[i].currency = code
    THEN CHOOSE i \in 1..Len(sections) : sections[i].currency = code
    ELSE 0

\* the card number looked for only on pages that belong to a section
GroupPageCardInSection(st, p) ==
    LET text == page_texts[p]
        page_currency == _detect_currency(text)
        current == IF page_currency # None THEN page_currency ELSE st.current_currency
        card == IF st.card_last_four = None /\ current # None
                THEN text.card ELSE st.card_last_four
        opened == IF page_currency # None /\ SectionIndex(st.sections, Val(current)) = 0
                  THEN Append(st.sections, [currency |-> Val(current), texts |-> << >>,
                                            period |-> text.period])
                  ELSE st.sections
        k == IF current = None THEN 0 ELSE SectionIndex(opened, Val(current))
    IN  [st EXCEPT !.card_last_four = card,
                   !.current_currency = current,
                   !.sections = IF k = 0 THEN opened
                                ELSE [opened EXCEPT ![k].texts = Append(@, p)]]

\* a section that takes its period from the latest page carrying its marker
GroupPageLatestPeriod(st, p) ==
    LET text == page_texts[p]
        card == IF st.card_last_four = None THEN text.card ELSE st.card_last_four
        page_currency == _detect_currency(text)
        current == IF page_currency # None THEN page_currency ELSE st.current_currency
        opened == IF page_currency # None /\ SectionIndex(st.sections, Val(current)) = 0
                  THEN Append(st.sections, [currency |-> Val(current), texts |-> << >>,
                                            period |-> text.period])
                  ELSE st.sections
        k == IF current = None THEN 0 ELSE SectionIndex(opened, Val(current))
    IN  [st EXCEPT !.card_last_four = card,
                   !.current_currency = current,
                   !.sections = IF k = 0 THEN opened
                                ELSE [opened EXCEPT
                                         ![k].texts = Append(@, p),
                                         ![k].period = IF page_currency # None
                                                       THEN text.period ELSE @]]

\* the body of the loop over page_texts, for page p
GroupPage(st, p) ==
    LET text == page_texts[p]
        card == IF st.card_last_four = None THEN text.card ELSE st.card_last_four
        page_currency == _detect_currency(text)
        current == IF page_currency # None THEN page_currency ELSE st.current_currency
        opened == IF page_currency # None /\ SectionIndex(st.sections, Val(current)) = 0
                  THEN Append(st.sections, [currency |-> Val(current), texts |-> << >>,
                                            period |-> text.period])
                  ELSE st.sections
        k == IF current = None THEN 0 ELSE SectionIndex(opened, Val(current))
    IN  [st EXCEPT !.card_last_four = card,
                   !.current_currency = current,
                   !.sections = IF k = 0 THEN opened
                                ELSE [opened EXCEPT ![k].texts = Append(@, p)]]

RECURSIVE GroupLoop(_, _)
GroupLoop(st, p) ==
    IF p > Len(page_texts) THEN st ELSE GroupLoop(GroupPage(st, p), p + 1)

\* the lines of one page of a section: acc is << transactions, in_tx_section >>
RECURSIVE ScanLines(_, _, _, _)
ScanLines(acc, p, k, currency) ==
    IF k > Len(page_texts[p].lines) THEN acc
    ELSE LET kind == page_texts[p].lines[k]
         IN  IF kind = "hdr" THEN ScanLines(<< acc[1], TRUE >>, p, k + 1, currency)
             ELSE IF ~acc[2] THEN ScanLines(acc, p, k + 1, currency)
             ELSE IF kind = "tx"
             THEN ScanLines(<< Append(acc[1], [page |-> p, line |-> k,
                                               currency |-> currency]), TRUE >>,
                            p, k + 1, currency)
             ELSE ScanLines(acc, p, k + 1, currency)

RECURSIVE ScanTexts(_, _, _)
ScanTexts(acc, texts, currency) ==
    IF texts = << >> THEN acc
    ELSE ScanTexts(ScanLines(acc, Head(texts), 1, currency), Tail(texts), currency)

\* one ParsedStatement of parse_credit_card
SectionStatement(section, card) ==
    [currency |-> section.currency,
     card_last_four |-> card,
     period |-> section.period,
     transactions |-> ScanTexts(<< << >>, FALSE >>, section.texts, section.currency)[1]]

\* ------------------------------------- parse_credit_card called on its own
Labels == {None, Some("PESOS"), Some("DOLARES")}

\* the marker combinations on a page
Markers ==
    { << None, None >>, << Some("PESOS"), None >>, << Some("DOLARES"), None >>,
      << None, Some("DOLARES") >>, << Some("PESOS"), Some("DOLARES") >> }

LineLists == { << "hdr", "tx" >>, << "tx", "skip", "text" >> }

CardOfPage(p) == << "1111", "2222", "3333", "4444", "5555" >>[p]

\* the texts page p can have; card digits and period differ from page to page
PageTexts(p) ==
    { [moneda |-> mk[1], estado |-> mk[2], card |-> c, period |-> Some(p), lines |-> ls] :
        mk \in Markers, c \in {None, Some(CardOfPage(p))}, ls \in LineLists }

InitCC ==
    /\ pc = "idle"
    /\ sample_text = {}
    /\ extracted_chars = 0
    /\ best = NoBest
    /\ primary = NoPrimary
    /\ calls = << >>
    /\ attempt = 0
    /\ extracted_text = << >>
    /\ fallback = NoFallback
    /\ response = NoResponse
    /\ page_texts = << >>
    /\ cc = [CcIdle EXCEPT !.pc = "reading"]
    /\ input = None
    /\ output = None

\* parse_credit_card, lines 341-347: the text of the next page of the PDF
ReadPage ==
    /\ cc.pc = "reading"
    /\ Len(page_texts) < MaxPages
    /\ \E text \in PageTexts(Len(page_texts) + 1) : page_texts' = Append(page_texts, text)
    /\ UNCHANGED << pc, sample_text, extracted_chars, best, primary, calls, response, cc >>
    /\ UNCHANGED fbVars
    /\ UNCHANGED unitVars

\* parse_credit_card, lines 349-374: the PDF, of at least one page, is read;
\* group the pages by currency section
GroupPages ==
    /\ cc.pc = "reading"
    /\ Len(page_texts) >= 1
    /\ cc' = [GroupLoop(cc, 1) EXCEPT !.pc = "grouped"]
    /\ UNCHANGED << pc, sample_text, extracted_chars, best, primary, calls, response,
                    page_texts >>
    /\ UNCHANGED fbVars
    /\ UNCHANGED unitVars

\* parse_credit_card, lines 376-422: one statement per section, then return
ParseSections ==
    /\ cc.pc = "grouped"
    /\ cc' = [cc EXCEPT !.pc = "returned",
                        !.results = [i \in 1..Len(cc.sections) |->
                                        SectionStatement(cc.sections[i], cc.card_last_four)]]
    /\ UNCHANGED << pc, sample_text, extracted_chars, best, primary, calls, response,
                    page_texts >>
    /\ UNCHANGED fbVars
    /\ UNCHANGED unitVars

NextCC ==
    \/ ReadPage
    \/ GroupPages
    \/ ParseSections

SpecCC == InitCC /\ [][NextCC]_vars

\* ------------------------------------ _build_statements_from_text on its own
\* A request whose leading pages were blank, whose OCR gave nothing, and whose
\* fallback CLI has just left a text of up to MaxFbLines lines.
InitFb ==
    /\ pc = "build"
    /\ sample_text = {}
    /\ extracted_chars = 0
    /\ best = NoBest
    /\ primary = DetectionError(NoBest)
    /\ calls = << Call("detect_and_parse", ""), Call("_ocr_sample_text", ""),
                  Call("try_parse_with_opendataloader", ""), Call("subprocess.run", "") >>
    /\ attempt = 1
    /\ extracted_text \in FbTexts
    /\ fallback = [tried |-> TRUE, enabled |-> TRUE, binary |-> TRUE, statements |-> << >>]
    /\ response = NoResponse
    /\ page_texts = << >>
    /\ cc = CcIdle
    /\ input = None
    /\ output = None

NextFb ==
    \/ BuildStatements
    \/ RespondAfterFallback

SpecFb == InitFb /\ [][NextFb]_vars

\* ------------------------------------------------ number tokens and floats
\* A token is a sequence of one-character strings.  A float is kept exactly,
\* as n / 10^d with n signed; ValueError is what float() raises.
Digit == "0" :> 0 @@ "1" :> 1 @@ "2" :> 2 @@ "3" :> 3 @@ "4" :> 4
      @@ "5" :> 5 @@ "6" :> 6 @@ "7" :> 7 @@ "8" :> 8 @@ "9" :> 9

Digits == DOMAIN Digit

Num(n, d) == [ok |-> TRUE, n |-> n, d |-> d]

ValueError == [ok |-> FALSE, n |-> 0, d |-> 0]

Zero == Num(0, 0)

\* the value n / 10^d without trailing zeros in the fraction
RECURSIVE Normal(_, _)
Normal(n, d) == IF d > 0 /\ n % 10 = 0 THEN Normal(n \div 10, d - 1) ELSE Num(n, d)

\* str.replace(c, "") for every c of chars
Remove(s, chars) == SelectSeq(s, LAMBDA c : c \notin chars)

\* str.replace(a, b) for single characters
Replace(s, a, b) == [i \in 1..Len(s) |-> IF s[i] = a THEN b ELSE s[i]]

\* str.count(c)
Count(s, c) == Cardinality({ i \in 1..Len(s) : s[i] = c })

\* str.rfind(c), 1-based; 0 when c does not occur
RFind(s, c) ==
    IF \E i \in 1..Len(s) : s[i] = c
    THEN CHOOSE i \in 1..Len(s) : s[i] = c /\ \A j \in (i + 1)..Len(s) : s[j] # c
    ELSE 0

AllIn(s, chars) == \A i \in 1..Len(s) : s[i] \in chars

RECURSIVE DigitsValue(_, _)
DigitsValue(s, acc) ==
    IF s = << >> THEN acc ELSE DigitsValue(Tail(s), 10 * acc + Digit[Head(s)])

\* float(s) for s made of digits, '.', ',' and '-': an optional sign, digits
\* with at most one point and at least one digit; anything else raises
PyFloat(s) ==
    LET neg == s # << >> /\ Head(s) = "-"
        body == IF neg THEN Tail(s) ELSE s
        point == RFind(body, ".")
        whole == Remove(body, {"."})
        d == IF point = 0 THEN 0 ELSE Len(body) - point
        n == DigitsValue(whole, 0)
    IN  IF whole = << >> \/ ~AllIn(whole, Digits) \/ Count(body, ".") > 1
        THEN ValueError
        ELSE Normal(IF neg THEN 0 - n ELSE n, d)

Negate(x) == Num(0 - x.n, x.d)

AbsNum(x) == Num(Abs(x.n), x.d)

\* utils.parse_us_number, and _parse_us_number of bancolombia_savings
parse_us_number(s) == PyFloat(Remove(s, {","}))

\* utils.parse_co_number
parse_co_number(s) == PyFloat(Replace(Remove(s, {"."}), ",", "."))

\* _parse_us_number of bogota_credit_card, popular_credit_card, davivienda_loan
_parse_us_number(s) ==
    LET t == Remove(s, {"$", " "})
    IN  IF t = << >> \/ t = << "-" >> THEN Zero ELSE PyFloat(Remove(t, {","}))

\* _parse_colombian_number of bancolombia_credit_card
_parse_colombian_number(s) ==
    LET t == Remove(s, {"$", " ", "%"})
    IN  IF t = << >> \/ t = << "-" >> THEN Zero
        ELSE PyFloat(Replace(Remove(t, {"."}), ",", "."))

\* str.lstrip("-")
RECURSIVE LStripMinus(_)
LStripMinus(s) == IF s # << >> /\ Head(s) = "-" THEN LStripMinus(Tail(s)) ELSE s

\* _parse_colombian_number of falabella_credit_card
falabella_parse_colombian_number(s) ==
    LET t == Remove(s, {"$", " ", "%"})
        negative == t # << >> /\ Head(t) = "-"
        val == PyFloat(Replace(Remove(LStripMinus(t), {"."}), ",", "."))
    IN  IF t = << >> \/ t = << "-" >> THEN Zero
        ELSE IF ~val.ok THEN ValueError
        ELSE IF negative THEN Negate(val) ELSE val

\* ------------------------------------------ one transaction row per profile
\* A row is what the profile's expression captured: the amount token and the
\* description.  Of a description only the tests the profiles make are kept:
\*   starts    the words desc.upper() starts with
\*   contains  the words found in desc.upper()
\*   thanks    "gracias por tu" occurs in desc.lower()
Desc ==
       "PAGO PSE" :> [starts |-> {"PAGO"}, contains |-> {"PAGO"}, thanks |-> FALSE]
    @@ "ABONO EXTRA" :> [starts |-> {"ABONO"}, contains |-> {"ABONO"}, thanks |-> FALSE]
    @@ "DEVOLUCION COMPRA" :> [starts |-> {"DEVOLUCION"}, contains |-> {"DEVOLUCION"}, thanks |-> FALSE]
    @@ "COMPRA TIENDA" :> [starts |-> {}, contains |-> {}, thanks |-> FALSE]
    @@ "GRACIAS POR TU PAGO" :> [starts |-> {}, contains |-> {"PAGO"}, thanks |-> TRUE]

Descriptions == DOMAIN Desc

Tx(amount, direction) == [status |-> "tx", amount |-> amount, direction |-> direction]

NoTx == [status |-> "skipped", amount |-> Zero, direction |-> ""]

Raises == [status |-> "raised", amount |-> Zero, direction |-> ""]

Negative(x) == x.n < 0

\* the token is -?[0-9.,]+
SignedNumberShape(s) ==
    LET body == IF s # << >> /\ Head(s) = "-" THEN Tail(s) ELSE s
    IN  body # << >> /\ AllIn(body, Digits \cup {".", ","})

\* the token is [0-9.,]+
NumberShape(s) == s # << >> /\ AllIn(s, Digits \cup {".", ","})

\* NUMBERS_AT_END of bancolombia_savings: -?[0-9,]*\.[0-9][0-9]
TwoDecimalsShape(s) ==
    LET body == IF s # << >> /\ Head(s) = "-" THEN Tail(s) ELSE s
        k == Len(body)
    IN  /\ k >= 3
        /\ body[k - 2] = "."
        /\ body[k - 1] \in Digits /\ body[k] \in Digits
        /\ AllIn(SubSeq(body, 1, k - 3), Digits \cup {","})

\* parse_savings: valor of a transaction line
Row_bancolombia_savings(token) ==
    LET valor == parse_us_number(token)
    IN  IF ~TwoDecimalsShape(token) THEN NoTx
        ELSE IF ~valor.ok THEN Raises
        ELSE Tx(AbsNum(valor), IF ~Negative(valor) THEN "INFLOW" ELSE "OUTFLOW")

\* _parse_transaction_line of bancolombia_credit_card
bancolombia_parse_transaction_line(token) ==
    LET amount == _parse_colombian_number(token)
    IN  IF ~SignedNumberShape(token) THEN NoTx
        ELSE IF ~amount.ok THEN NoTx
        ELSE Tx(AbsNum(amount), IF Negative(amount) THEN "INFLOW" ELSE "OUTFLOW")

\* parse_bogota_credit_card: nums[1] of a row, any text without a blank
Row_bogota_credit_card(token, desc) ==
    LET amount == _parse_us_number(token)
    IN  IF token = << >> THEN NoTx
        ELSE IF ~amount.ok THEN NoTx
        ELSE Tx(amount, IF Desc[desc].starts \cap {"PAGO", "ABONO"} # {}
                        THEN "INFLOW" ELSE "OUTFLOW")

\* parse_popular_credit_card: group 4 of TX_PAYMENT_RE
Row_popular_credit_card(token, desc) ==
    LET amount == _parse_us_number(token)
    IN  IF ~SignedNumberShape(token) THEN NoTx
        ELSE IF ~amount.ok THEN NoTx
        ELSE IF Negative(amount) THEN Tx(AbsNum(amount), "INFLOW")
        ELSE IF "PAGO" \in Desc[desc].contains THEN Tx(amount, "INFLOW")
        ELSE Tx(amount, "OUTFLOW")

\* parse_falabella_credit_card: group 4 of TX_LINE_RE
Row_falabella_credit_card(token, desc) ==
    LET amount == falabella_parse_colombian_number(token)
    IN  IF ~SignedNumberShape(token) THEN NoTx
        ELSE IF ~amount.ok THEN NoTx
        ELSE IF Negative(amount) THEN Tx(AbsNum(amount), "INFLOW")
        ELSE IF Desc[desc].starts \cap {"DEVOLUCION", "PAGO"} # {} THEN Tx(amount, "INFLOW")
        ELSE Tx(amount, "OUTFLOW")

\* YEAR_RE of nu_credit_card, searched in the text after the day and month:
\* where its first match starts in the token, 0 when it has none
YearStart(s) ==
    LET starts == { i \in 1..(Len(s) - 3) :
                      /\ AllIn(SubSeq(s, i, i + 3), Digits)
                      /\ (i + 3 = Len(s) \/ s[i + 4] \notin Digits) }
    IN  IF starts = {} THEN 0 ELSE CHOOSE i \in starts : \A j \in starts : i <= j

\* _parse_transactions of nu_credit_card: the first AMOUNT_RE match of the
\* text before the year; the row names no year before its amount
Row_nu_credit_card(token, desc) ==
    LET year == YearStart(token)
        amount_token == IF year = 0 THEN token ELSE SubSeq(token, 1, year - 1)
        amount == parse_co_number(amount_token)
    IN  IF ~NumberShape(token) THEN NoTx
        ELSE IF amount_token = << >> THEN NoTx
        ELSE IF ~amount.ok THEN NoTx
        ELSE IF amount.n <= 0 THEN NoTx
        ELSE Tx(amount, IF Desc[desc].thanks THEN "INFLOW" ELSE "OUTFLOW")

\* parse_davivienda_loan: group 4 of TX_LINE_RE; float()'s error is not caught
Row_davivienda_loan(token) ==
    LET amount == _parse_us_number(token)
    IN  IF ~NumberShape(token) THEN NoTx
        ELSE IF ~amount.ok THEN Raises
        ELSE Tx(amount, "INFLOW")

\* parse_lulo_loan: the Valor column of a payment row
Row_lulo_loan(token) ==
    LET amount == parse_us_number(token)
    IN  IF ~NumberShape(token) THEN NoTx
        ELSE IF ~amount.ok THEN NoTx
        ELSE Tx(amount, "OUTFLOW")

\* re.fullmatch(r"\.?\d{1,2}", s)
RateArtefactShape(s) ==
    LET body == IF s # << >> /\ Head(s) = "." THEN Tail(s) ELSE s
    IN  Len(body) \in {1, 2} /\ AllIn(body, Digits)

\* str.lstrip(".")
RECURSIVE LStripDot(_)
LStripDot(s) == IF s # << >> /\ Head(s) = "." THEN LStripDot(Tail(s)) ELSE s

\* _parse_num of confiar_credit_card
_parse_num(raw) ==
    LET s == Remove(raw, {"$", "%", " "})
        has_comma == Count(s, ",") > 0
        has_dot == Count(s, ".") > 0
    IN  IF s = << >> \/ s \in {<< "." >>, << "," >>, << "-" >>} THEN Zero
        ELSE IF RateArtefactShape(s) THEN PyFloat(LStripDot(s))
        ELSE IF has_comma /\ ~has_dot
            THEN IF Count(s, ",") > 1 \/ Len(s) - RFind(s, ",") # 2
                 THEN PyFloat(Remove(s, {","}))
                 ELSE PyFloat(Replace(s, ",", "."))
        ELSE IF has_dot /\ ~has_comma
            THEN IF Count(s, ".") > 1 \/ Len(s) - RFind(s, ".") > 2
                 THEN PyFloat(Remove(s, {"."}))
                 ELSE PyFloat(s)
        ELSE IF has_comma /\ has_dot
            THEN IF RFind(s, ",") > RFind(s, ".")
                 THEN PyFloat(Replace(Remove(s, {"."}), ",", "."))
                 ELSE PyFloat(Remove(s, {","}))
        ELSE PyFloat(s)

\* a reading that takes every comma for a thousands separator
comma_is_thousands(raw) == PyFloat(Remove(raw, {"$", " ", ","}))

\* _parse_mixed_number of opendataloader_fallback
_parse_mixed_number(raw) ==
    LET t == Remove(raw, {"$", " "})
        negative == t # << >> /\ Head(t) = "-"
        s == IF negative THEN Tail(t) ELSE t
        has_comma == Count(s, ",") > 0
        has_dot == Count(s, ".") > 0
        normalized ==
            IF has_comma /\ has_dot
            THEN IF RFind(s, ",") > RFind(s, ".")
                 THEN Replace(Remove(s, {"."}), ",", ".")
                 ELSE Remove(s, {","})
            ELSE IF has_comma
            THEN IF Count(s, ",") > 1 \/ Len(s) - RFind(s, ",") # 2
                 THEN Remove(s, {","})
                 ELSE Replace(s, ",", ".")
            ELSE IF has_dot
            THEN IF Count(s, ".") > 1 \/ Len(s) - RFind(s, ".") # 2
                 THEN Remove(s, {"."})
                 ELSE s
            ELSE s
        value == PyFloat(normalized)
    IN  IF t = << >> THEN Zero
        ELSE IF ~value.ok THEN ValueError
        ELSE IF negative THEN Negate(value) ELSE value

\* _parse_transaction of confiar_credit_card: nums[3] and nums[4] of the row
_parse_transaction(cargos_token, abonos_token) ==
    LET cargos == _parse_num(cargos_token)
        abonos == _parse_num(abonos_token)
    IN  IF ~NumberShape(cargos_token) \/ ~NumberShape(abonos_token) THEN NoTx
        ELSE IF ~cargos.ok \/ ~abonos.ok THEN NoTx
        ELSE IF cargos.n = 0 /\ abonos.n = 0 THEN NoTx
        ELSE IF abonos.n > 0 /\ cargos.n = 0 THEN Tx(abonos, "INFLOW")
        ELSE Tx(cargos, "OUTFLOW")

\* all sequences over alphabet of length at most k
RECURSIVE Strings(_, _)
Strings(alphabet, k) ==
    IF k = 0 THEN {<< >>}
    ELSE LET shorter == Strings(alphabet, k - 1)
         IN  shorter \cup { Append(s, c) : s \in { t \in shorter : Len(t) = k - 1 },
                                           c \in alphabet }

\* the amount tokens of a row, of k characters at most
AmountTokens(k) == Strings({"0", "1", "-", ",", "."}, k) \ {<< >>}

\* the abonos column of a Confiar row
AbonosTokens == {<< "0" >>, << "1", "0" >>, << "," >>}

RowOf(profile, token, other, desc, line, type) ==
    [profile |-> profile, token |-> token, other |-> other, desc |-> desc,
     line |-> line, type |-> type]

\* the rows handed to the profiles and the lines handed to the fallback
Rows(k) ==
    { RowOf(p, t, << >>, d, "", "") :
        p \in {"bogota_credit_card", "popular_credit_card",
               "falabella_credit_card", "nu_credit_card"},
        t \in AmountTokens(k), d \in Descriptions }
    \cup { RowOf(p, t, << >>, "COMPRA TIENDA", "", "") :
        p \in {"bancolombia_savings", "bancolombia_credit_card",
               "davivienda_loan", "lulo_loan"},
        t \in AmountTokens(k) }
    \cup { RowOf("confiar_credit_card", t, o, "COMPRA TIENDA", "", "") :
        t \in AmountTokens(k), o \in AbonosTokens }
    \cup { RowOf("opendataloader_fallback", << >>, << >>, "", l, ty) :
        l \in FbLineIds, ty \in {"savings", "credit_card", "loan"} }

\* the transaction, if any, a profile makes of a row
RowResult(r) ==
    CASE r.profile = "bancolombia_savings" -> Row_bancolombia_savings(r.token)
      [] r.profile = "bancolombia_credit_card" -> bancolombia_parse_transaction_line(r.token)
      [] r.profile = "bogota_credit_card" -> Row_bogota_credit_card(r.token, r.desc)
      [] r.profile = "popular_credit_card" -> Row_popular_credit_card(r.token, r.desc)
      [] r.profile = "falabella_credit_card" -> Row_falabella_credit_card(r.token, r.desc)
      [] r.profile = "nu_credit_card" -> Row_nu_credit_card(r.token, r.desc)
      [] r.profile = "davivienda_loan" -> Row_davivienda_loan(r.token)
      [] r.profile = "lulo_loan" -> Row_lulo_loan(r.token)
      [] r.profile = "confiar_credit_card" -> _parse_transaction(r.token, r.other)
      [] r.profile = "opendataloader_fallback" ->
            LET tx == _parse_transaction_line(r.line, r.type)
            IN  IF tx = None THEN NoTx ELSE Tx(Num(tx.amount, 0), tx.direction)

InitRow ==
    /\ pc = "row"
    /\ sample_text = {}
    /\ extracted_chars = 0
    /\ best = NoBest
    /\ primary = NoPrimary
    /\ calls = << >>
    /\ attempt = 0
    /\ extracted_text = << >>
    /\ fallback = NoFallback
    /\ response = NoResponse
    /\ page_texts = << >>
    /\ cc = CcIdle
    /\ input \in Rows(MaxAmountLen)
    /\ output = None

\* one row of the transaction table goes through the profile's loop body
ParseRow ==
    /\ pc = "row"
    /\ output' = RowResult(input)
    /\ pc' = "row_done"
    /\ UNCHANGED << sample_text, extracted_chars, best, primary, calls, response, input >>
    /\ UNCHANGED fbVars
    /\ UNCHANGED ccVars

NextRow == ParseRow

SpecRow == InitRow /\ [][NextRow]_vars

\* ------------------------------------------- numeric fields of the loans
\* A loan document is a sequence of lines, each one label with the number
\* token printed after it.
LoanTokens == {<< "0" >>, << "1", ".", "5" >>, << ".", "0", "0" >>}

CountTokens == {<< "0" >>, << "2" >>}

LoanLine(label, token) == [label |-> label, token |-> token]

\* the labels parse_bogota_loan looks for; VALOR TOTAL A PAGAR is the header
\* row whose amount is printed on the line below
BogotaLoanLabels ==
    {"VALOR TOTAL A PAGAR", "MONTO APROBADO", "TASA PACTADA E.A.",
     "TASA INTERES MORA E.A.", "SALDO TOTAL A LA FECHA DE CORTE",
     "+ CAPITAL", "+ INTERESES CORRIENTES"}

\* the labels parse_loan of bancolombia_loan looks for
BancolombiaLoanLabels ==
    {"VALOR INICIAL", "SALDO DE CREDITO", "TOTAL", "TASA DE INTERES E.A.",
     "TASA MORA A LA FECHA"}

\* all sequences over lines of length at most k
RECURSIVE Documents(_, _)
Documents(lines, k) ==
    IF k = 0 THEN {<< >>}
    ELSE LET shorter == Documents(lines, k - 1)
         IN  shorter \cup { Append(d, l) : d \in { e \in shorter : Len(e) = k - 1 },
                                           l \in lines }

\* Python's `not x` for an optional float: None or 0.0
Falsy(x) == x = None \/ Val(x).n = 0

\* _parse_us_number of bancolombia_loan
loan_parse_us_number(s) ==
    LET t == Remove(s, {"$", " ", "%"})
    IN  IF t = << >> \/ t = << "-" >> \/ t = << ".", "0", "0" >> THEN Zero
        ELSE PyFloat(Remove(t, {","}))

\* parse_bogota_loan: the loop over the lines, st holding the locals
RECURSIVE BogotaLoanLoop(_, _)
BogotaLoanLoop(st, lines) ==
    IF lines = << >> THEN st
    ELSE LET l == Head(lines)
             v == Some(_parse_us_number(l.token))
             next ==
                CASE l.label = "VALOR TOTAL A PAGAR" -> [st EXCEPT !.total_payment_due = v]
                  [] l.label = "MONTO APROBADO" /\ Falsy(st.initial_amount) ->
                        [st EXCEPT !.initial_amount = v]
                  [] l.label = "TASA PACTADA E.A." /\ Falsy(st.interest_rate) ->
                        [st EXCEPT !.interest_rate = v]
                  [] l.label = "TASA INTERES MORA E.A." /\ Falsy(st.late_interest_rate) ->
                        [st EXCEPT !.late_interest_rate = v]
                  [] l.label = "SALDO TOTAL A LA FECHA DE CORTE" ->
                        [st EXCEPT !.remaining_balance = v]
                  [] l.label = "+ CAPITAL" -> [st EXCEPT !.capital_payment = v]
                  [] l.label = "+ INTERESES CORRIENTES" -> [st EXCEPT !.interest_payment = v]
                  [] OTHER -> st
         IN  BogotaLoanLoop(next, Tail(lines))

\* parse_bogota_loan: the numeric fields of the statement it returns
parse_bogota_loan(lines) ==
    LET st == BogotaLoanLoop([initial_amount |-> None, remaining_balance |-> None,
                              interest_rate |-> None, late_interest_rate |-> None,
                              total_payment_due |-> None,
                              capital_payment |-> Some(Zero),
                              interest_payment |-> Some(Zero)], lines)
    IN  [final_balance |-> st.remaining_balance,
         purchases_and_charges |-> st.capital_payment,
         interest_charged |-> st.interest_payment,
         initial_amount |-> st.initial_amount,
         remaining_balance |-> st.remaining_balance,
         interest_rate |-> st.interest_rate,
         late_interest_rate |-> st.late_interest_rate,
         total_payment_due |-> st.total_payment_due,
         installments_in_default |-> None]

\* float(m.group(1).replace(",", ".")) inside try / except ValueError: pass
RateOrKeep(old, token) ==
    LET r == PyFloat(Replace(token, ",", "."))
    IN  IF r.ok THEN Some(r) ELSE old

\* parse_loan of bancolombia_loan: the loop over the lines
RECURSIVE BancolombiaLoanLoop(_, _)
BancolombiaLoanLoop(st, lines) ==
    IF lines = << >> THEN st
    ELSE LET l == Head(lines)
             v == Some(loan_parse_us_number(l.token))
             next ==
                CASE l.label = "VALOR INICIAL" /\ Falsy(st.initial_amount) ->
                        [st EXCEPT !.initial_amount = v]
                  [] l.label = "SALDO DE CREDITO" /\ Falsy(st.remaining_balance) ->
                        [st EXCEPT !.remaining_balance = v]
                  [] l.label = "TOTAL" /\ Falsy(st.total_payment_due) ->
                        [st EXCEPT !.total_payment_due = v]
                  [] l.label = "TASA DE INTERES E.A." /\ Falsy(st.interest_rate) ->
                        [st EXCEPT !.interest_rate = RateOrKeep(st.interest_rate, l.token)]
                  [] l.label = "TASA MORA A LA FECHA" /\ Falsy(st.late_interest_rate)
                     /\ l.token # << ".", "0", "0" >> ->
                        [st EXCEPT !.late_interest_rate =
                                        RateOrKeep(st.late_interest_rate, l.token)]
                  [] l.label = "N DE CUOTAS EN MORA" ->
                        [st EXCEPT !.cuotas_in_mora = DigitsValue(l.token, 0)]
                  [] OTHER -> st
         IN  BancolombiaLoanLoop(next, Tail(lines))

\* parse_loan of bancolombia_loan: the numeric fields of the statement
parse_loan(lines) ==
    LET st == BancolombiaLoanLoop([initial_amount |-> None, remaining_balance |-> None,
                                   interest_rate |-> None, late_interest_rate |-> None,
                                   total_payment_due |-> None, cuotas_in_mora |-> 0], lines)
    IN  [final_balance |-> st.remaining_balance,
         purchases_and_charges |-> None,
         interest_charged |-> None,
         initial_amount |-> st.initial_amount,
         remaining_balance |-> st.remaining_balance,
         interest_rate |-> st.interest_rate,
         late_interest_rate |-> st.late_interest_rate,
         total_payment_due |-> st.total_payment_due,
         installments_in_default |-> IF st.cuotas_in_mora > 0
                                     THEN Some(Num(st.cuotas_in_mora, 0)) ELSE None]

BogotaLoanLines == { LoanLine(l, t) : l \in BogotaLoanLabels, t \in LoanTokens }

BancolombiaLoanLines ==
    { LoanLine(l, t) : l \in BancolombiaLoanLabels, t \in LoanTokens }
    \cup { LoanLine("N DE CUOTAS EN MORA", t) : t \in CountTokens }

\* the documents handed to the two loan profiles and the texts handed to the
\* summary and metadata extraction of the fallback
FieldInputs(k) ==
    { [profile |-> "bogota_loan", lines |-> d, text |-> << >>] :
            d \in Documents(BogotaLoanLines, k) }
    \cup { [profile |-> "bancolombia_loan", lines |-> d, text |-> << >>] :
            d \in Documents(BancolombiaLoanLines, k) }
    \cup { [profile |-> "opendataloader_fallback", lines |-> << >>, text |-> t] :
            t \in FbTexts }

\* the numeric fields a profile reports for a document
FieldsOf(in) ==
    CASE in.profile = "bogota_loan" -> parse_bogota_loan(in.lines)
      [] in.profile = "bancolombia_loan" -> parse_loan(in.lines)
      [] in.profile = "opendataloader_fallback" ->
            [summary |-> _extract_summary(in.text),
             credit_card_metadata |-> _extract_credit_metadata(in.text),
             loan_metadata |-> _extract_loan_metadata(in.text)]

InitFields ==
    /\ pc = "fields"
    /\ sample_text = {}
    /\ extracted_chars = 0
    /\ best = NoBest
    /\ primary = NoPrimary
    /\ calls = << >>
    /\ attempt = 0
    /\ extracted_text = << >>
    /\ fallback = NoFallback
    /\ response = NoResponse
    /\ page_texts = << >>
    /\ cc = CcIdle
    /\ input \in FieldInputs(MaxLoanLines)
    /\ output = None

\* the profile reads the document and builds the summary and metadata
ExtractFields ==
    /\ pc = "fields"
    /\ output' = FieldsOf(input)
    /\ pc' = "fields_done"
    /\ UNCHANGED << sample_text, extracted_chars, best, primary, calls, response, input >>
    /\ UNCHANGED fbVars
    /\ UNCHANGED ccVars

NextFields == ExtractFields

SpecFields == InitFields /\ [][NextFields]_vars

\* --------------------------------------------- year of a day/month date
\* A date is kept as [year, month]; the day plays no part in the inference.
Years == 2024..(2024 + MaxYearSpan)

Months == 1..12

YearMonth(y, m) == [year |-> y, month |-> m]

\* from_date <= to_date
NotAfter(a, b) == a.year < b.year \/ (a.year = b.year /\ a.month <= b.month)

\* the statement periods a document header can print
Periods(years) ==
    { [from |-> YearMonth(fy, fm), to |-> YearMonth(ty, tm)] :
        fy \in years, fm \in Months, ty \in years, tm \in Months }

\* utils.resolve_year, and _resolve_year of bancolombia_savings
resolve_year(tx_month, from_date, to_date) ==
    IF from_date.year = to_date.year THEN from_date.year
    ELSE IF tx_month >= from_date.month THEN from_date.year
    ELSE to_date.year

\* parse_savings: tx_year of a line dated D/MM, period being what PERIOD_RE
\* found so far (None before the header line)
savings_tx_year(tx_month, period, today) ==
    IF period # None
    THEN resolve_year(tx_month, Val(period).from, Val(period).to)
    ELSE today.year

\* _parse_date_token of opendataloader_fallback on a token "%d/%m" or "%d-%m"
_parse_date_token(tx_month, today) == today.year

\* the dated lines: the period printed in the document (read or not by the
\* profile), the month of the line and the day the service runs
YearInputs(years) ==
    { [profile |-> p, period |-> Some(q), tx_month |-> m, today |-> YearMonth(y, 11)] :
        p \in {"bancolombia_savings", "opendataloader_fallback"},
        q \in { r \in Periods(years) : NotAfter(r.from, r.to) }, m \in Months, y \in years }
    \cup { [profile |-> "bancolombia_savings", period |-> None, tx_month |-> m,
            today |-> YearMonth(y, 11)] : m \in Months, y \in years }

YearOf(in) ==
    IF in.profile = "bancolombia_savings"
    THEN savings_tx_year(in.tx_month, in.period, in.today)
    ELSE _parse_date_token(in.tx_month, in.today)

InitYear ==
    /\ pc = "date"
    /\ sample_text = {}
    /\ extracted_chars = 0
    /\ best = NoBest
    /\ primary = NoPrimary
    /\ calls = << >>
    /\ attempt = 0
    /\ extracted_text = << >>
    /\ fallback = NoFallback
    /\ response = NoResponse
    /\ page_texts = << >>
    /\ cc = CcIdle
    /\ input \in YearInputs(Years)
    /\ output = None

\* the profile dates one transaction line
InferYear ==
    /\ pc = "date"
    /\ output' = YearOf(input)
    /\ pc' = "dated"
    /\ UNCHANGED << sample_text, extracted_chars, best, primary, calls, response, input >>
    /\ UNCHANGED fbVars
    /\ UNCHANGED ccVars

NextYear == InferYear

SpecYear == InitYear /\ [][NextYear]_vars

\* ------------------------------------------- bancolombia savings statement
\* Most lines a savings document holds.
MaxSavingsLines == 3

Date(y, m, d) == [year |-> y, month |-> m, day |-> d]

\* "DESDE: yyyy/mm/dd HASTA: yyyy/mm/dd", the line PERIOD_RE finds
PeriodLine(from, to) ==
    [kind |-> "period", from |-> from, to |-> to, day |-> 0, month |-> 0,
     valor |-> << >>, saldo |-> << >>, label |-> ""]

\* "D/MM description valor saldo", the line DATE_AT_START and NUMBERS_AT_END find
TxLine(day, month, valor, saldo) ==
    [kind |-> "tx", from |-> Date(0, 0, 0), to |-> Date(0, 0, 0), day |-> day,
     month |-> month, valor |-> valor, saldo |-> saldo, label |-> ""]

\* "<label> $ number", the line SUMMARY_RE finds
SummaryLine(label, number) ==
    [kind |-> "summary", from |-> Date(0, 0, 0), to |-> Date(0, 0, 0), day |-> 0,
     month |-> 0, valor |-> number, saldo |-> << >>, label |-> label]

\* a line none of the patterns of parse_savings finds
OtherLine ==
    [kind |-> "other", from |-> Date(0, 0, 0), to |-> Date(0, 0, 0), day |-> 0,
     month |-> 0, valor |-> << >>, saldo |-> << >>, label |-> ""]

OneThousand == << "1", ",", "0", "0", "0", ".", "0", "0" >>
MinusOneThousand == << "-" >> \o OneThousand
FourThousand == << "4", ",", "0", "0", "0", ".", "0", "0" >>
FiveThousand == << "5", ",", "0", "0", "0", ".", "0", "0" >>

SavingsLines ==
    { PeriodLine(Date(2025, 12, 1), Date(2026, 1, 31)),
      PeriodLine(Date(2026, 1, 1), Date(2026, 1, 31)),
      TxLine(15, 1, OneThousand, FiveThousand),
      TxLine(20, 12, MinusOneThousand, FourThousand),
      SummaryLine("SALDO ACTUAL", FiveThousand),
      SummaryLine("SALDO ACTUAL", FourThousand),
      SummaryLine("SALDO ANTERIOR", FourThousand),
      OtherLine }

NoStatement ==
    [raised |-> "", period_from |-> None, period_to |-> None, transactions |-> << >>,
     previous_balance |-> None, final_balance |-> None]

\* parse_savings, lines 70-140: what one line adds to the locals
SavingsLine(st, line, today) ==
    LET period == IF st.period_from # None
                  THEN Some([from |-> Val(st.period_from), to |-> Val(st.period_to)])
                  ELSE None
        valor == parse_us_number(line.valor)
    IN  CASE line.kind = "period" /\ st.period_from = None ->
                 [st EXCEPT !.period_from = Some(line.from), !.period_to = Some(line.to)]
          [] line.kind = "summary" /\ line.label = "SALDO ANTERIOR" ->
                 [st EXCEPT !.previous_balance = Some(valor)]
          [] line.kind = "summary" /\ line.label = "SALDO ACTUAL" ->
                 [st EXCEPT !.final_balance = Some(valor)]
          [] line.kind = "tx" ->
                 [st EXCEPT !.transactions = Append(@,
                     [date |-> Date(savings_tx_year(line.month, period, today),
                                    line.month, line.day),
                      amount |-> AbsNum(valor),
                      direction |-> IF Negative(valor) THEN "OUTFLOW" ELSE "INFLOW",
                      balance |-> parse_us_number(line.saldo)])]
          [] OTHER -> st

RECURSIVE SavingsLoop(_, _, _)
SavingsLoop(st, lines, today) ==
    IF lines = << >> THEN st
    ELSE SavingsLoop(SavingsLine(st, Head(lines), today), Tail(lines), today)

\* parse_savings(pdf_path): one statement built from the lines of every page
parse_savings(lines, today) == SavingsLoop(NoStatement, lines, today)

\* DETECTORS, line 43: parse_savings(path, password=pw); the function takes
\* no password, so the keyword call raises before its body runs
bancolombia_savings_parse(lines, today) == [NoStatement EXCEPT !.raised = "TypeError"]

SavingsInputs ==
    { [route |-> r, lines |-> d, today |-> Date(2026, 11, 2)] :
        r \in {"detector", "direct"}, d \in Documents(SavingsLines, MaxSavingsLines) }

InitSavings ==
    /\ pc = "savings"
    /\ sample_text = {}
    /\ extracted_chars = 0
    /\ best = NoBest
    /\ primary = NoPrimary
    /\ calls = << >>
    /\ attempt = 0
    /\ extracted_text = << >>
    /\ fallback = NoFallback
    /\ response = NoResponse
    /\ page_texts = << >>
    /\ cc = CcIdle
    /\ input \in SavingsInputs
    /\ output = None

\* the profile is run by the detector on the document
DetectorParseSavings ==
    /\ pc = "savings"
    /\ input.route = "detector"
    /\ output' = bancolombia_savings_parse(input.lines, input.today)
    /\ pc' = "savings_done"
    /\ UNCHANGED << sample_text, extracted_chars, best, primary, calls, response, input >>
    /\ UNCHANGED fbVars
    /\ UNCHANGED ccVars

\* parse_savings(pdf_path) called with the path alone
DirectParseSavings ==
    /\ pc = "savings"
    /\ input.route = "direct"
    /\ output' = parse_savings(input.lines, input.today)
    /\ pc' = "savings_done"
    /\ UNCHANGED << sample_text, extracted_chars, best, primary, calls, response, input >>
    /\ UNCHANGED fbVars
    /\ UNCHANGED ccVars

NextSavings == DetectorParseSavings \/ DirectParseSavings

SpecSavings == InitSavings /\ [][NextSavings]_vars

\* ------------------------------------------------- password hand-off
\* the passwords a request carries
Passwords == {None, Some("a"), Some("b"), Some("c")}

\* the parameters of each profile's parse function, from its def line
ParseParameters(name) ==
    IF name \in {"bancolombia_savings", "bancolombia_credit_card"}
    THEN {"pdf_path"}
    ELSE {"pdf_path", "password"}

\* the profiles that open the page-text provider (pdfplumber.open)
PageTextProfiles == { DETECTORS[i] : i \in DOMAIN DETECTORS } \ {"confiar_credit_card"}

\* the profiles that open the OCR provider (convert_from_path)
OcrProfiles == {"nu_credit_card", "confiar_credit_card"}

NotOpened == << >>
Opened(password) == << password >>

InitHandOff ==
    /\ pc = "handoff"
    /\ sample_text = {}
    /\ extracted_chars = 0
    /\ best = NoBest
    /\ primary = NoPrimary
    /\ calls = << >>
    /\ attempt = 0
    /\ extracted_text = << >>
    /\ fallback = NoFallback
    /\ response = NoResponse
    /\ page_texts = << >>
    /\ cc = CcIdle
    /\ input \in { [profile |-> DETECTORS[i], password |-> pw] :
                     i \in DOMAIN DETECTORS, pw \in Passwords }
    /\ output = None

\* detect_and_parse, line 265: best_detector["parse"](pdf_path, password), and
\* the registry lambda calling the parse function with password=pw
InvokeProfile ==
    /\ pc = "handoff"
    /\ IF "password" \in ParseParameters(input.profile)
       THEN /\ output' = [raised |-> "", received |-> input.password,
                          page_text |-> NotOpened, ocr |-> NotOpened]
            /\ pc' = "parsing"
       ELSE /\ output' = [raised |-> "TypeError", received |-> None,
                          page_text |-> NotOpened, ocr |-> NotOpened]
            /\ pc' = "handoff_raised"
    /\ UNCHANGED << sample_text, extracted_chars, best, primary, calls, response, input >>
    /\ UNCHANGED fbVars
    /\ UNCHANGED ccVars

\* pdfplumber.open(pdf_path, password=password) in the profile
OpenPageText ==
    /\ pc = "parsing"
    /\ input.profile \in PageTextProfiles
    /\ output' = [output EXCEPT !.page_text = Opened(output.received)]
    /\ pc' = "page_text_opened"
    /\ UNCHANGED << sample_text, extracted_chars, best, primary, calls, response, input >>
    /\ UNCHANGED fbVars
    /\ UNCHANGED ccVars

\* convert_from_path(pdf_path, **kwargs), kwargs["userpw"] = password if password
OpenOcr ==
    /\ \/ pc = "page_text_opened" /\ input.profile = "nu_credit_card"
       \/ pc = "parsing" /\ input.profile = "confiar_credit_card"
    /\ input.profile \in OcrProfiles
    /\ output' = [output EXCEPT !.ocr = Opened(output.received)]
    /\ pc' = "ocr_opened"
    /\ UNCHANGED << sample_text, extracted_chars, best, primary, calls, response, input >>
    /\ UNCHANGED fbVars
    /\ UNCHANGED ccVars

NextHandOff == InvokeProfile \/ OpenPageText \/ OpenOcr

SpecHandOff == InitHandOff /\ [][NextHandOff]_vars

\* --------------------------------------- parse invocations side by side
\* Most lines a Falabella document holds.
MaxFalabellaLines == 2

\* the lines of a Falabella statement parse_falabella_credit_card tells apart:
\* the "Paga antes del" label, a lone date, a transaction line, anything else
FalabellaLines ==
    { [kind |-> "paga", val |-> 0], [kind |-> "date", val |-> 20],
      [kind |-> "tx", val |-> 1], [kind |-> "other", val |-> 0] }

FalabellaDocuments == Documents(FalabellaLines, MaxFalabellaLines)

\* the locals of a process that has parsed nothing yet
NoLocals ==
    [payment_due_date |-> None, paga_antes_del_seen |-> FALSE, transactions |-> << >>]

\* the locals past an invocation may have left behind
retained_locals(retained) == retained

\* parse_falabella_credit_card, lines 114-121: the accumulators and the
\* label-seen flag are locals created at the call, whatever another invocation
\* (retained) holds
falabella_locals(retained) ==
    [payment_due_date |-> None, paga_antes_del_seen |-> FALSE, transactions |-> << >>]

\* parse_falabella_credit_card, lines 128-237: one line of the loop
falabella_line(st, line) ==
    LET due == IF st.payment_due_date # None THEN st
               ELSE IF st.paga_antes_del_seen
               THEN [st EXCEPT !.payment_due_date =
                                   IF line.kind = "date" THEN Some(line.val) ELSE None,
                               !.paga_antes_del_seen = FALSE]
               ELSE IF line.kind = "paga"
               THEN [st EXCEPT !.paga_antes_del_seen = TRUE]
               ELSE st
    IN  IF line.kind = "tx"
        THEN [due EXCEPT !.transactions = Append(@, line.val)]
        ELSE due

RECURSIVE falabella_loop(_, _)
falabella_loop(st, lines) ==
    IF lines = << >> THEN st
    ELSE falabella_loop(falabella_line(st, Head(lines)), Tail(lines))

\* the statement an invocation running alone returns
parse_falabella_credit_card(lines) == falabella_loop(falabella_locals(NoLocals), lines)

Invocations == {1, 2}
Other(i) == 3 - i

IdleInvocation ==
    [at |-> "idle", next |-> 1, overlapped |-> FALSE, locals |-> NoLocals]

InitParallel ==
    /\ pc = "parallel"
    /\ sample_text = {}
    /\ extracted_chars = 0
    /\ best = NoBest
    /\ primary = NoPrimary
    /\ calls = << >>
    /\ attempt = 0
    /\ extracted_text = << >>
    /\ fallback = NoFallback
    /\ response = NoResponse
    /\ page_texts = << >>
    /\ cc = CcIdle
    /\ input \in { << a, b >> : a \in FalabellaDocuments, b \in FalabellaDocuments }
    /\ output = << IdleInvocation, IdleInvocation >>

\* a worker enters parse_falabella_credit_card on its document
BeginParse(i) ==
    /\ pc = "parallel"
    /\ output[i].at = "idle"
    /\ output' = [output EXCEPT ![i] =
                      [at |-> "running", next |-> 1,
                       overlapped |-> output[Other(i)].at = "running",
                       locals |-> falabella_locals(output[Other(i)].locals)]]
    /\ UNCHANGED << pc, sample_text, extracted_chars, best, primary, calls, response, input >>
    /\ UNCHANGED fbVars
    /\ UNCHANGED ccVars

\* the worker handles the next line of its document
ParseLine(i) ==
    /\ pc = "parallel"
    /\ output[i].at = "running"
    /\ output[i].next <= Len(input[i])
    /\ output' = [output EXCEPT ![i].locals = falabella_line(@, input[i][output[i].next]),
                                ![i].next = @ + 1]
    /\ UNCHANGED << pc, sample_text, extracted_chars, best, primary, calls, response, input >>
    /\ UNCHANGED fbVars
    /\ UNCHANGED ccVars

\* the worker returns its statement
ReturnStatement(i) ==
    /\ pc = "parallel"
    /\ output[i].at = "running"
    /\ output[i].next > Len(input[i])
    /\ output' = [output EXCEPT ![i].at = "returned"]
    /\ UNCHANGED << pc, sample_text, extracted_chars, best, primary, calls, response, input >>
    /\ UNCHANGED fbVars
    /\ UNCHANGED ccVars

NextParallel ==
    \E i \in Invocations : BeginParse(i) \/ ParseLine(i) \/ ReturnStatement(i)

SpecParallel == InitParallel /\ [][NextParallel]_vars

\* --------------------------------------- provider invocations and time
\* Longest time, in seconds, one provider command takes.
MaxSeconds == 3

\* timeout_seconds of try_parse_with_opendataloader (OPENDATALOADER_TIMEOUT_SEC),
\* scaled to the seconds of the model
TimeoutSec == 2

\* what one command does when left alone: the time it takes and how it ends
Run(seconds, ending) == [seconds |-> seconds, ending |-> ending]

Runs == { Run(s, e) : s \in 0..MaxSeconds, e \in {"text", "empty", "nonzero", "error"} }

Outcome(kind, waited) == [kind |-> kind, waited |-> waited]

\* _extract_text_via_cli, lines 101-140: each command runs under
\* subprocess.run(timeout=timeout_seconds); any exception, TimeoutExpired
\* included, is logged and the next command is tried; None after the last
RECURSIVE _extract_text_via_cli(_, _)
_extract_text_via_cli(runs, waited) ==
    IF runs = << >> THEN Outcome("no_text", waited)
    ELSE LET r == Head(runs)
         IN  IF r.seconds > TimeoutSec
             THEN _extract_text_via_cli(Tail(runs), waited + TimeoutSec)
             ELSE IF r.ending = "text"
             THEN Outcome("text", waited + r.seconds)
             ELSE _extract_text_via_cli(Tail(runs), waited + r.seconds)

\* _ocr_sample_text, lines 168-190: convert_from_path and image_to_string are
\* called without a timeout; every exception gives ""
_ocr_sample_text(r) ==
    IF r.ending = "text" THEN Outcome("text", r.seconds)
    ELSE Outcome("no_text", r.seconds)

\* _ocr_pages of confiar_credit_card, lines 50-79: no timeout either; every
\* exception is raised again as RuntimeError
_ocr_pages(r) ==
    IF r.ending \in {"text", "empty"} THEN Outcome(r.ending, r.seconds)
    ELSE Outcome("RuntimeError", r.seconds)

ProviderInputs ==
    { [provider |-> "_extract_text_via_cli", runs |-> << a, b >>] : a \in Runs, b \in Runs }
    \cup { [provider |-> p, runs |-> << a >>] :
             p \in {"_ocr_sample_text", "_ocr_pages"}, a \in Runs }

InitProvider ==
    /\ pc = "provider"
    /\ sample_text = {}
    /\ extracted_chars = 0
    /\ best = NoBest
    /\ primary = NoPrimary
    /\ calls = << >>
    /\ attempt = 0
    /\ extracted_text = << >>
    /\ fallback = NoFallback
    /\ response = NoResponse
    /\ page_texts = << >>
    /\ cc = CcIdle
    /\ input \in ProviderInputs
    /\ output = None

RunCli ==
    /\ pc = "provider"
    /\ input.provider = "_extract_text_via_cli"
    /\ output' = _extract_text_via_cli(input.runs, 0)
    /\ pc' = "provider_done"
    /\ UNCHANGED << sample_text, extracted_chars, best, primary, calls, response, input >>
    /\ UNCHANGED fbVars
    /\ UNCHANGED ccVars

RunOcrSample ==
    /\ pc = "provider"
    /\ input.provider = "_ocr_sample_text"
    /\ output' = _ocr_sample_text(input.runs[1])
    /\ pc' = "provider_done"
    /\ UNCHANGED << sample_text, extracted_chars, best, primary, calls, response, input >>
    /\ UNCHANGED fbVars
    /\ UNCHANGED ccVars

RunOcrPages ==
    /\ pc = "provider"
    /\ input.provider = "_ocr_pages"
    /\ output' = _ocr_pages(input.runs[1])
    /\ pc' = "provider_done"
    /\ UNCHANGED << sample_text, extracted_chars, best, primary, calls, response, input >>
    /\ UNCHANGED fbVars
    /\ UNCHANGED ccVars

NextProvider == RunCli \/ RunOcrSample \/ RunOcrPages

SpecProvider == InitProvider /\ [][NextProvider]_vars

\* ------------------------------------------- locale-aware normalizers
\* Longest numeric token enumerated.
MaxTokenLen == 5

\* the tokens NUM_TOKEN_RE ([\d.,]+) and _AMOUNT_RE (-?\$?\s*\d[\d.,]*) pick
\* up, and those with a sign or a separator out of place; the longer amounts
\* are the ones the statements print
PrintedTokens ==
    { << "1", ".", "2", "3", "4", ".", "5", "6", "7", ",", "8", "9" >>,
      << "1", ",", "2", "3", "4", ",", "5", "6", "7", ".", "8", "9" >>,
      << "7", ".", "5", "5", "4", ".", "2", "7", "2" >>,
      << "2", "4", ".", "0", "2" >>,
      << "1", ".", "5" >>,
      << ".", "5", "0" >> }

NumericTokens ==
    (Strings({"0", "1", "-", ",", "."}, MaxTokenLen) \ {<< >>}) \cup PrintedTokens

InitToken ==
    /\ pc = "token"
    /\ sample_text = {}
    /\ extracted_chars = 0
    /\ best = NoBest
    /\ primary = NoPrimary
    /\ calls = << >>
    /\ attempt = 0
    /\ extracted_text = << >>
    /\ fallback = NoFallback
    /\ response = NoResponse
    /\ page_texts = << >>
    /\ cc = CcIdle
    /\ input \in { [normalizer |-> f, token |-> t] :
                     f \in {"_parse_num", "_parse_mixed_number"}, t \in NumericTokens }
    /\ output = None

\* confiar_credit_card reads the token
ParseNum ==
    /\ pc = "token"
    /\ input.normalizer = "_parse_num"
    /\ output' = _parse_num(input.token)
    /\ pc' = "number"
    /\ UNCHANGED << sample_text, extracted_chars, best, primary, calls, response, input >>
    /\ UNCHANGED fbVars
    /\ UNCHANGED ccVars

\* opendataloader_fallback reads the token
ParseMixedNumber ==
    /\ pc = "token"
    /\ input.normalizer = "_parse_mixed_number"
    /\ output' = _parse_mixed_number(input.token)
    /\ pc' = "number"
    /\ UNCHANGED << sample_text, extracted_chars, best, primary, calls, response, input >>
    /\ UNCHANGED fbVars
    /\ UNCHANGED ccVars

NextToken == ParseNum \/ ParseMixedNumber

SpecToken == InitToken /\ [][NextToken]_vars

\* --------------------------------------------- doubled-character collapse
\* Longest line enumerated.
MaxLineLen == 6

\* the characters \s matches, among those of the lines below
Whitespace == {" "}

\* _dedup_token: token[::2] when the length is even, 2 at least, and each
\* pair token[i], token[i + 1] (i = 0, 2, 4, ...) is equal
_dedup_token(token) ==
    LET n == Len(token)
    IN  IF n >= 2 /\ n % 2 = 0 /\ \A k \in 1..(n \div 2) : token[2 * k - 1] = token[2 * k]
        THEN [k \in 1..(n \div 2) |-> token[2 * k - 1]]
        ELSE token

\* the length of the run of whitespace (or of anything else) a line starts with
RECURSIVE RunLength(_, _)
RunLength(line, space) ==
    IF line = << >> \/ ((Head(line) \in Whitespace) # space) THEN 0
    ELSE 1 + RunLength(Tail(line), space)

\* re.split(r"(\s+)", line): the runs of whitespace and the tokens between
\* them, in order (the empty strings the split adds at the ends left out)
RECURSIVE SplitOnWhitespace(_)
SplitOnWhitespace(line) ==
    IF line = << >> THEN << >>
    ELSE LET k == RunLength(line, Head(line) \in Whitespace)
         IN  << SubSeq(line, 1, k) >> \o SplitOnWhitespace(SubSeq(line, k + 1, Len(line)))

RECURSIVE JoinParts(_)
JoinParts(parts) ==
    IF parts = << >> THEN << >> ELSE Head(parts) \o JoinParts(Tail(parts))

\* _normalize_line: "".join(_dedup_token(p) for p in parts)
_normalize_line(line) ==
    LET parts == SplitOnWhitespace(line)
    IN  JoinParts([i \in 1..Len(parts) |-> _dedup_token(parts[i])])

\* lines of doubled and plain characters, and tokens the statements print
PrintedLines ==
    { << "1", ".", "9", "6", "9", ".", "9", "0", "0", ",", "0", "0" >>,
      << "T", "T" >>,
      << "C", "C", "M", "M", "R", "R", " ", " ", "T", "T" >> }

Lines == (Strings({"C", "M", "R", " "}, MaxLineLen) \ {<< >>}) \cup PrintedLines

InitLine ==
    /\ pc = "line"
    /\ sample_text = {}
    /\ extracted_chars = 0
    /\ best = NoBest
    /\ primary = NoPrimary
    /\ calls = << >>
    /\ attempt = 0
    /\ extracted_text = << >>
    /\ fallback = NoFallback
    /\ response = NoResponse
    /\ page_texts = << >>
    /\ cc = CcIdle
    /\ input \in Lines
    /\ output = None

\* parse_falabella_credit_card, line 130: the line is normalised
NormalizeLine ==
    /\ pc = "line"
    /\ output' = _normalize_line(input)
    /\ pc' = "normalized"
    /\ UNCHANGED << sample_text, extracted_chars, best, primary, calls, response, input >>
    /\ UNCHANGED fbVars
    /\ UNCHANGED ccVars

NextLine == NormalizeLine

SpecLine == InitLine /\ [][NextLine]_vars

\* ------------------------------------------------- Confiar OCR statements
\* Most lines the pages of a Confiar document hold together.
MaxConfiarLines == 3

\* `len(line) < 40`, the length under which a line is description overflow
OverflowLimit == 40

\* the least length of a numeric run read as an amount in a label's value line
ValidLen == 5

\* A cleaned OCR line by what the patterns of the profile see in it: start
\* (TX_START_RE matches), marker (a footer marker occurs in it), numeric
\* (only digits, separators and blanks), length, movement (a transaction line
\* whose charges or credits are not zero), label (one of the two-column labels
\* "cupo" and "pagos", or "total" for the line "(=) Pago total" that carries
\* its amount itself) and nums, its runs of digits and commas by length and
\* value.
ConfiarLine(start, marker, numeric, length, movement, label, nums) ==
    [start |-> start, marker |-> marker, numeric |-> numeric, length |-> length,
     movement |-> movement, label |-> label, nums |-> nums]

DigitRun(length, value) == [len |-> length, value |-> value]

BlankLine    == ConfiarLine(FALSE, FALSE, FALSE, 0, FALSE, "", << >>)
FooterLine   == ConfiarLine(FALSE, TRUE, FALSE, 18, FALSE, "", << >>)
TxStartLine  == ConfiarLine(TRUE, FALSE, FALSE, 60, TRUE, "",
                            << DigitRun(4, 2025), DigitRun(4, 1234), DigitRun(5, 2402),
                               DigitRun(7, 100000) >>)
TxIdleLine   == ConfiarLine(TRUE, FALSE, FALSE, 32, FALSE, "", << DigitRun(4, 2025) >>)
TxFooterLine == ConfiarLine(TRUE, TRUE, FALSE, 56, TRUE, "",
                            << DigitRun(4, 2025), DigitRun(4, 1234), DigitRun(5, 2402),
                               DigitRun(7, 100000) >>)
OverflowLine == ConfiarLine(FALSE, FALSE, FALSE, 8, FALSE, "", << >>)
NumbersLine  == ConfiarLine(FALSE, FALSE, TRUE, 19, FALSE, "",
                            << DigitRun(9, 1500000), DigitRun(9, 5000000) >>)
CupoLabel    == ConfiarLine(FALSE, FALSE, FALSE, 26, FALSE, "cupo", << >>)
PagosLabel   == ConfiarLine(FALSE, FALSE, FALSE, 22, FALSE, "pagos", << >>)
PagoTotalEq  == ConfiarLine(FALSE, FALSE, FALSE, 24, FALSE, "total",
                            << DigitRun(9, 2500000) >>)

ConfiarLines ==
    { BlankLine, FooterLine, TxStartLine, TxIdleLine, TxFooterLine, OverflowLine,
      NumbersLine, CupoLabel, PagosLabel, PagoTotalEq }

\* a pattern that finds no marker in any line
NO_MARKER_RE(line) == FALSE

FOOTER_MARKER_RE(line) == line.marker

TX_START_RE(line) == line.start

CUPO_DISP_TOTAL_RE(line) == line.label = "cupo"

PAGO_MIN_TOT_RE(line) == line.label = "pagos"

PAGO_TOTAL_EQ_RE(line) == line.label = "total"

\* the records gathered so far, the one in progress flushed behind them
Flushed(st) ==
    IF st.current = None THEN st.result ELSE Append(st.result, Val(st.current))

\* _reconstruct_tx_lines, lines 187-209: one line of the loop; a record is the
\* sequence of the positions of the lines joined into it
reconstruct_line(st, lines, i) ==
    LET line == lines[i]
    IN  IF st.stopped \/ line.length = 0 THEN st
        ELSE IF FOOTER_MARKER_RE(line)
        THEN [result |-> Flushed(st), current |-> None, stopped |-> TRUE]
        ELSE IF TX_START_RE(line)
        THEN [result |-> Flushed(st), current |-> Some(<< i >>), stopped |-> FALSE]
        ELSE IF st.current # None
        THEN IF ~line.numeric /\ line.length < OverflowLimit
             THEN [st EXCEPT !.current = Some(Append(Val(st.current), i))]
             ELSE [result |-> Flushed(st), current |-> None, stopped |-> FALSE]
        ELSE st

RECURSIVE reconstruct_loop(_, _, _)
reconstruct_loop(st, lines, i) ==
    IF i > Len(lines) THEN st
    ELSE reconstruct_loop(reconstruct_line(st, lines, i), lines, i + 1)

_reconstruct_tx_lines(lines) ==
    Flushed(reconstruct_loop([result |-> << >>, current |-> None, stopped |-> FALSE],
                             lines, 1))

\* _parse_transaction (Confiar): a reconstructed line yields a transaction when the line
\* it starts from carries a movement; the overflow joined behind the numeric
\* columns is dropped by _split_tx_rest
confiar_parse_transaction(lines, record) ==
    IF TX_START_RE(lines[record[1]]) /\ lines[record[1]].movement
    THEN Some(record[1]) ELSE None

RECURSIVE confiar_transactions(_, _)
confiar_transactions(lines, records) ==
    IF records = << >> THEN << >>
    ELSE LET tx == confiar_parse_transaction(lines, Head(records))
         IN  (IF tx = None THEN << >> ELSE << Val(tx) >>)
                 \o confiar_transactions(lines, Tail(records))

\* the runs of a value line long enough to be amounts
ValidRuns(line) == SelectSeq(line.nums, LAMBDA n : n.len >= ValidLen)

NoMetadata ==
    [expect |-> "", available_credit |-> None, credit_limit |-> None,
     minimum_payment |-> None, total_payment_due |-> None]

\* a metadata loop that goes on expecting the values of a label it has met
sticky_metadata_line(st, line) ==
    IF CUPO_DISP_TOTAL_RE(line) \/ PAGO_MIN_TOT_RE(line)
    THEN [st EXCEPT !.expect = line.label]
    ELSE IF st.expect = "cupo" /\ Len(ValidRuns(line)) >= 2
    THEN [st EXCEPT !.available_credit = Some(ValidRuns(line)[1].value),
                    !.credit_limit = Some(ValidRuns(line)[2].value)]
    ELSE IF st.expect = "pagos" /\ Len(ValidRuns(line)) >= 2
    THEN [st EXCEPT !.minimum_payment = Some(ValidRuns(line)[1].value)]
    ELSE st

\* parse_confiar_credit_card, lines 372-407: one line of the metadata loop
metadata_line(st, line) ==
    IF CUPO_DISP_TOTAL_RE(line) THEN [st EXCEPT !.expect = "cupo"]
    ELSE IF PAGO_MIN_TOT_RE(line) THEN [st EXCEPT !.expect = "pagos"]
    ELSE IF st.expect = "cupo"
    THEN LET valid == ValidRuns(line)
         IN  IF Len(valid) >= 2
             THEN [st EXCEPT !.available_credit = Some(valid[1].value),
                             !.credit_limit = Some(valid[2].value),
                             !.expect = ""]
             ELSE [st EXCEPT !.expect = ""]
    ELSE IF st.expect = "pagos"
    THEN LET valid == ValidRuns(line)
         IN  IF Len(valid) >= 2
             THEN [st EXCEPT !.minimum_payment = Some(valid[1].value),
                             !.total_payment_due =
                                 IF @ = None THEN Some(valid[2].value) ELSE @,
                             !.expect = ""]
             ELSE [st EXCEPT !.expect = ""]
    ELSE IF st.total_payment_due = None /\ PAGO_TOTAL_EQ_RE(line)
    THEN [st EXCEPT !.total_payment_due = Some(line.nums[1].value)]
    ELSE st

RECURSIVE metadata_loop(_, _)
metadata_loop(st, lines) ==
    IF lines = << >> THEN st
    ELSE metadata_loop(metadata_line(st, Head(lines)), Tail(lines))

\* line 333: the page texts are joined by a line break and split into lines
\* again, so a page without text leaves one empty line behind, except as the
\* last page
PageLines(page) == IF page = << >> THEN << BlankLine >> ELSE page

RECURSIVE JoinPages(_)
JoinPages(pages) ==
    IF pages = << >> THEN << >> ELSE PageLines(Head(pages)) \o JoinPages(Tail(pages))

SplitLines(pages) ==
    LET joined == JoinPages(pages)
    IN  IF pages # << >> /\ pages[Len(pages)] = << >>
        THEN SubSeq(joined, 1, Len(joined) - 1)
        ELSE joined

\* parse_confiar_credit_card, lines 327-498: the metadata and the transactions
\* of the one statement returned
parse_confiar_credit_card(pages) ==
    LET all_lines == SplitLines(pages)
        records   == _reconstruct_tx_lines(all_lines)
    IN  [all_lines |-> all_lines,
         metadata |-> metadata_loop(NoMetadata, all_lines),
         records |-> records,
         transactions |-> confiar_transactions(all_lines, records)]

\* the ways to cut document d into two pages
PageCuts(d) ==
    { << SubSeq(d, 1, cut), SubSeq(d, cut + 1, Len(d)) >> : cut \in 0..Len(d) }

InitConfiar ==
    /\ pc = "confiar"
    /\ sample_text = {}
    /\ extracted_chars = 0
    /\ best = NoBest
    /\ primary = NoPrimary
    /\ calls = << >>
    /\ attempt = 0
    /\ extracted_text = << >>
    /\ fallback = NoFallback
    /\ response = NoResponse
    /\ page_texts = << >>
    /\ cc = CcIdle
    /\ \E d \in Documents(ConfiarLines, MaxConfiarLines) : input \in PageCuts(d)
    /\ output = None

ParseConfiar ==
    /\ pc = "confiar"
    /\ output' = Some(parse_confiar_credit_card(input))
    /\ pc' = "parsed"
    /\ UNCHANGED << sample_text, extracted_chars, best, primary, calls, response, input >>
    /\ UNCHANGED fbVars
    /\ UNCHANGED ccVars

NextConfiar == ParseConfiar

SpecConfiar == InitConfiar /\ [][NextConfiar]_vars

\* ---------------------------------------------------- multi-line merging
\* Most lines of a document handed to a merge.
MaxMergeLines == 5

\* the lines taken behind a year line at most
max_continuation == 3

\* A normalised Nu line by what _build_transaction_text asks of it: date
\* (TX_DATE_RE matches), year (YEAR_RE matches), detail (it starts with the
\* arrow of a detail row), pago_minimo (it holds both "pago" and "mínimo"),
\* digit (its first character is one), its words and its dollar signs; the
\* empty line has no word.
NuLine(date, year, detail, pago_minimo, digit, words, dollars) ==
    [date |-> date, year |-> year, detail |-> detail, pago_minimo |-> pago_minimo,
     digit |-> digit, words |-> words, dollars |-> dollars]

NuDate   == NuLine(TRUE, FALSE, FALSE, FALSE, TRUE, 4, 1)
NuYear   == NuLine(FALSE, TRUE, FALSE, FALSE, TRUE, 1, 0)
NuDetail == NuLine(FALSE, FALSE, TRUE, FALSE, FALSE, 5, 0)
NuEmpty  == NuLine(FALSE, FALSE, FALSE, FALSE, FALSE, 0, 0)
NuFooter == NuLine(FALSE, FALSE, FALSE, TRUE, FALSE, 2, 0)
NuShort  == NuLine(FALSE, FALSE, FALSE, FALSE, FALSE, 1, 0)
NuMedium == NuLine(FALSE, FALSE, FALSE, FALSE, FALSE, 5, 0)
NuLong   == NuLine(FALSE, FALSE, FALSE, FALSE, FALSE, 7, 0)
NuDigits == NuLine(FALSE, FALSE, FALSE, FALSE, TRUE, 2, 0)

NuLines ==
    { NuDate, NuYear, NuDetail, NuEmpty, NuFooter, NuShort, NuMedium, NuLong, NuDigits }

TX_DATE_RE(line) == line.date

YEAR_RE(line) == line.year

Merged(i, parts) == [i |-> i, parts |-> parts]

\* _build_transaction_text, lines 165-191: the lines taken behind the year
RECURSIVE after_year(_, _, _, _)
after_year(lines, i, parts, left) ==
    IF left = 0 \/ i > Len(lines) THEN Merged(i, parts)
    ELSE LET next_next_line == lines[i]
         IN  IF TX_DATE_RE(next_next_line) \/ next_next_line.words = 0
             THEN Merged(i, parts)
             ELSE IF next_next_line.pago_minimo THEN Merged(i, parts)
             ELSE IF next_next_line.detail
             THEN after_year(lines, i + 1, Append(parts, i), left - 1)
             ELSE IF ~next_next_line.digit
             THEN IF next_next_line.words <= 5 /\ next_next_line.dollars <= 2
                  THEN after_year(lines, i + 1, Append(parts, i), left - 1)
                  ELSE Merged(i, parts)
             ELSE Merged(i, parts)

\* _build_transaction_text, lines 154-210: the look-ahead behind a date line
RECURSIVE look_ahead(_, _, _)
look_ahead(lines, i, parts) ==
    IF i > Len(lines) THEN Merged(i, parts)
    ELSE LET next_line == lines[i]
         IN  IF YEAR_RE(next_line)
             THEN after_year(lines, i + 1, Append(parts, i), max_continuation)
             ELSE IF next_line.detail THEN look_ahead(lines, i + 1, Append(parts, i))
             ELSE IF TX_DATE_RE(next_line) THEN Merged(i, parts)
             ELSE IF next_line.words = 0 THEN look_ahead(lines, i + 1, parts)
             ELSE IF next_line.words <= 3 /\ next_line.dollars = 0
             THEN look_ahead(lines, i + 1, Append(parts, i))
             ELSE Merged(i, parts)

RECURSIVE build_loop(_, _, _)
build_loop(lines, i, result) ==
    IF i > Len(lines) THEN result
    ELSE IF TX_DATE_RE(lines[i])
    THEN LET merged == look_ahead(lines, i + 1, << i >>)
         IN  build_loop(lines, merged.i, Append(result, merged.parts))
    ELSE build_loop(lines, i + 1, result)

\* _build_transaction_text, lines 131-218: each record is the sequence of the
\* positions of the lines joined into it
_build_transaction_text(lines) == build_loop(lines, 1, << >>)

\* the Confiar lines the reconstruction tells apart
MergeConfiarLines ==
    { BlankLine, FooterLine, TxStartLine, TxFooterLine, OverflowLine, NumbersLine }

MergeInputs(k) ==
    { [profile |-> "confiar", lines |-> d] : d \in Documents(MergeConfiarLines, k) }
        \cup { [profile |-> "nu", lines |-> d] : d \in Documents(NuLines, k) }

InitMerge ==
    /\ pc = "merge"
    /\ sample_text = {}
    /\ extracted_chars = 0
    /\ best = NoBest
    /\ primary = NoPrimary
    /\ calls = << >>
    /\ attempt = 0
    /\ extracted_text = << >>
    /\ fallback = NoFallback
    /\ response = NoResponse
    /\ page_texts = << >>
    /\ cc = CcIdle
    /\ input \in MergeInputs(MaxMergeLines)
    /\ output = None

ReconstructTxLines ==
    /\ pc = "merge"
    /\ input.profile = "confiar"
    /\ output' = Some(_reconstruct_tx_lines(input.lines))
    /\ pc' = "merged"
    /\ UNCHANGED << sample_text, extracted_chars, best, primary, calls, response, input >>
    /\ UNCHANGED fbVars
    /\ UNCHANGED ccVars

BuildTransactionText ==
    /\ pc = "merge"
    /\ input.profile = "nu"
    /\ output' = Some(_build_transaction_text(input.lines))
    /\ pc' = "merged"
    /\ UNCHANGED << sample_text, extracted_chars, best, primary, calls, response, input >>
    /\ UNCHANGED fbVars
    /\ UNCHANGED ccVars

NextMerge == ReconstructTxLines \/ BuildTransactionText

SpecMerge == InitMerge /\ [][NextMerge]_vars

\* ------------------------------------------- label lines and value lines
\* Most lines of a document scanned for labels.
MaxLabelLines == 3

\* the Falabella lines, with a second lone date
LabelFalabellaLines == FalabellaLines \cup { [kind |-> "date", val |-> 21] }

LabelInputs(k) ==
    { [profile |-> "falabella", lines |-> d] : d \in Documents(LabelFalabellaLines, k) }
        \cup { [profile |-> "confiar", lines |-> d] : d \in Documents(ConfiarLines, k) }

InitLabels ==
    /\ pc = "labels"
    /\ sample_text = {}
    /\ extracted_chars = 0
    /\ best = NoBest
    /\ primary = NoPrimary
    /\ calls = << >>
    /\ attempt = 0
    /\ extracted_text = << >>
    /\ fallback = NoFallback
    /\ response = NoResponse
    /\ page_texts = << >>
    /\ cc = CcIdle
    /\ input \in LabelInputs(MaxLabelLines)
    /\ output = None

\* the locals before the first line: parse_falabella_credit_card, lines
\* 114-121, parse_confiar_credit_card, lines 364-370
BeginScan ==
    /\ pc = "labels"
    /\ output' = Some([i |-> 1,
                       st |-> IF input.profile = "falabella"
                              THEN falabella_locals(NoLocals) ELSE NoMetadata])
    /\ pc' = "scanning"
    /\ UNCHANGED << sample_text, extracted_chars, best, primary, calls, response, input >>
    /\ UNCHANGED fbVars
    /\ UNCHANGED ccVars

\* one turn of the line loop of parse_falabella_credit_card
ScanFalabellaLine ==
    /\ pc = "scanning"
    /\ input.profile = "falabella"
    /\ Val(output).i <= Len(input.lines)
    /\ output' = Some([i |-> Val(output).i + 1,
                       st |-> falabella_line(Val(output).st, input.lines[Val(output).i])])
    /\ UNCHANGED << pc, sample_text, extracted_chars, best, primary, calls, response, input >>
    /\ UNCHANGED fbVars
    /\ UNCHANGED ccVars

\* one turn of the metadata loop of parse_confiar_credit_card
ScanConfiarLine ==
    /\ pc = "scanning"
    /\ input.profile = "confiar"
    /\ Val(output).i <= Len(input.lines)
    /\ output' = Some([i |-> Val(output).i + 1,
                       st |-> metadata_line(Val(output).st, input.lines[Val(output).i])])
    /\ UNCHANGED << pc, sample_text, extracted_chars, best, primary, calls, response, input >>
    /\ UNCHANGED fbVars
    /\ UNCHANGED ccVars

\* the loop has run out of lines
EndScan ==
    /\ pc = "scanning"
    /\ Val(output).i > Len(input.lines)
    /\ pc' = "scanned"
    /\ UNCHANGED << sample_text, extracted_chars, best, primary, calls, response, input, output >>
    /\ UNCHANGED fbVars
    /\ UNCHANGED ccVars

NextLabels == BeginScan \/ ScanFalabellaLine \/ ScanConfiarLine \/ EndScan

SpecLabels == InitLabels /\ [][NextLabels]_vars

\* ------------------------------------------------------ the two endpoints
\* PARSER_API_KEY as the process finds it: unset, empty or set
ApiKeys == { None, Some(""), Some("secret") }

\* the X-Parser-Key header of a request: missing, empty, the secret, another
KeyHeaders == { None, Some(""), Some("secret"), Some("other") }

\* a request: the endpoint, the configured key and the header, and what the
\* checks of the handlers see in the upload (the file name ends in .pdf, the
\* content exceeds MAX_PDF_BYTES, the content starts with %PDF)
Requests ==
    [endpoint : {"parse", "save-unrecognized"}, configured : ApiKeys, key : KeyHeaders,
     pdf_name : BOOLEAN, too_big : BOOLEAN, magic : BOOLEAN]

\* the locals of a handler and the response it is about to send
NoHandler ==
    [status |-> 0, type |-> "", tmp_path |-> "none", removals |-> 0, primary |-> "",
     saved |-> FALSE]

\* a guard that lets every request through when no key is configured
open_verify_key(configured, key) ==
    IF configured = None \/ configured = Some("") THEN 0
    ELSE IF key # configured THEN 403
    ELSE 0

\* _verify_key, lines 42-48: the status it raises, 0 when it returns
_verify_key(configured, key) ==
    IF configured = None \/ configured = Some("") THEN 503
    ELSE IF key # configured THEN 403
    ELSE 0

\* parse_pdf, lines 94-103, save_for_support, lines 170-179: the status the
\* checks of the upload raise, 0 when they pass
ValidateUpload(r) ==
    IF ~r.pdf_name THEN 400
    ELSE IF r.too_big THEN 413
    ELSE IF ~r.magic THEN 400
    ELSE 0

InitRequest ==
    /\ pc = "request"
    /\ sample_text = {}
    /\ extracted_chars = 0
    /\ best = NoBest
    /\ primary = NoPrimary
    /\ calls = << >>
    /\ attempt = 0
    /\ extracted_text = << >>
    /\ fallback = NoFallback
    /\ response = NoResponse
    /\ page_texts = << >>
    /\ cc = CcIdle
    /\ input \in Requests
    /\ output = NoHandler

\* the dependency of both routes runs before the handler
VerifyKey ==
    /\ pc = "request"
    /\ LET status == _verify_key(input.configured, input.key)
       IN  IF status # 0
           THEN /\ output' = [output EXCEPT !.status = status]
                /\ pc' = "completed"
           ELSE /\ output' = output
                /\ pc' = "handler"
    /\ UNCHANGED << sample_text, extracted_chars, best, primary, calls, response, input >>
    /\ UNCHANGED fbVars
    /\ UNCHANGED ccVars

\* the handler reads the upload and checks it
ReadUpload ==
    /\ pc = "handler"
    /\ LET status == ValidateUpload(input)
       IN  IF status # 0
           THEN /\ output' = [output EXCEPT !.status = status]
                /\ pc' = "completed"
           ELSE /\ output' = output
                /\ pc' = IF input.endpoint = "parse" THEN "write" ELSE "save"
    /\ UNCHANGED << sample_text, extracted_chars, best, primary, calls, response, input >>
    /\ UNCHANGED fbVars
    /\ UNCHANGED ccVars

\* parse_pdf, lines 106-109: the upload is written to a temporary file that
\* outlives the `with` block
WriteTemp ==
    /\ pc = "write"
    /\ output' = [output EXCEPT !.tmp_path = "written"]
    /\ pc' = "try"
    /\ UNCHANGED << sample_text, extracted_chars, best, primary, calls, response, input >>
    /\ UNCHANGED fbVars
    /\ UNCHANGED ccVars

\* parse_pdf, lines 119-126: detect_and_parse returns or raises
DetectAndParse ==
    /\ pc = "try"
    /\ \E outcome \in {"ok", "ValueError", "Exception"} :
          IF outcome = "ok"
          THEN /\ output' = [output EXCEPT !.primary = outcome, !.status = 200]
               /\ pc' = "finally"
          ELSE /\ output' = [output EXCEPT !.primary = outcome]
               /\ pc' = "except"
    /\ UNCHANGED << sample_text, extracted_chars, best, primary, calls, response, input >>
    /\ UNCHANGED fbVars
    /\ UNCHANGED ccVars

\* parse_pdf, lines 127-159: the handler of the exception tries the fallback
\* and returns its statements or raises the HTTP error
HandleFailure ==
    /\ pc = "except"
    /\ \E recovered \in BOOLEAN :
          output' =
              IF recovered THEN [output EXCEPT !.status = 200]
              ELSE IF output.primary = "ValueError"
              THEN [output EXCEPT !.status = 422, !.type = "unsupported_format"]
              ELSE [output EXCEPT !.status = 500, !.type = "internal_error"]
    /\ pc' = "finally"
    /\ UNCHANGED << sample_text, extracted_chars, best, primary, calls, response, input >>
    /\ UNCHANGED fbVars
    /\ UNCHANGED ccVars

\* a handler whose exit leaves the temporary file alone
LeaveTemp ==
    /\ pc = "finally"
    /\ pc' = "completed"
    /\ UNCHANGED << sample_text, extracted_chars, best, primary, calls, response, input,
                    output >>
    /\ UNCHANGED fbVars
    /\ UNCHANGED ccVars

\* parse_pdf, lines 160-164: on the way out os.remove is called once; its
\* OSError is logged and the response goes out as it stood
RemoveTemp ==
    /\ pc = "finally"
    /\ \E removed \in BOOLEAN :
          output' = [output EXCEPT !.removals = @ + 1,
                                   !.tmp_path = IF removed THEN "removed" ELSE @]
    /\ pc' = "completed"
    /\ UNCHANGED << sample_text, extracted_chars, best, primary, calls, response, input >>
    /\ UNCHANGED fbVars
    /\ UNCHANGED ccVars

\* save_for_support, lines 181-183: the upload is stored, or the storage
\* raises and the request ends as a server error
SaveUnrecognized ==
    /\ pc = "save"
    /\ \E stored \in BOOLEAN :
          output' = IF stored THEN [output EXCEPT !.status = 200, !.saved = TRUE]
                    ELSE [output EXCEPT !.status = 500]
    /\ pc' = "completed"
    /\ UNCHANGED << sample_text, extracted_chars, best, primary, calls, response, input >>
    /\ UNCHANGED fbVars
    /\ UNCHANGED ccVars

NextRequest ==
    \/ VerifyKey
    \/ ReadUpload
    \/ WriteTemp
    \/ DetectAndParse
    \/ HandleFailure
    \/ RemoveTemp
    \/ SaveUnrecognized

SpecRequest == InitRequest /\ [][NextRequest]_vars

\* ------------------------------------- de-duplication in the fallback
\* Most lines handed to _extract_transactions.
MaxDedupLines == 4

DedupLineIds == {"TX_NOMINA", "TX_nomina", "TX_COMPRA", "TX_REVERSO", "TX_ZERO", "HOLA"}

DedupInputs(k) ==
    { [lines |-> l, statement_type |-> t] :
        l \in {<< >>} \cup UNION { [1..n -> DedupLineIds] : n \in 1..k },
        t \in {"savings", "credit_card", "loan"} }

InitDedup ==
    /\ pc = "dedup"
    /\ sample_text = {}
    /\ extracted_chars = 0
    /\ best = NoBest
    /\ primary = NoPrimary
    /\ calls = << >>
    /\ attempt = 0
    /\ extracted_text = << >>
    /\ fallback = NoFallback
    /\ response = NoResponse
    /\ page_texts = << >>
    /\ cc = CcIdle
    /\ input \in DedupInputs(MaxDedupLines)
    /\ output = None

ExtractTransactions ==
    /\ pc = "dedup"
    /\ output' = Some(_extract_transactions(input.lines, input.statement_type))
    /\ pc' = "deduped"
    /\ UNCHANGED << sample_text, extracted_chars, best, primary, calls, response, input >>
    /\ UNCHANGED fbVars
    /\ UNCHANGED ccVars

NextDedup == ExtractTransactions

SpecDedup == InitDedup /\ [][NextDedup]_vars

\* -------------------------------------------------------------- properties
\* the greatest score a registered profile reaches on t, profile by profile
MaxScore(t) ==
    LET S == { Score(DETECTORS[i], Upper(t)) : i \in 1..Len(DETECTORS) }
    IN  CHOOSE x \in S : \A y \in S : y <= x

CallsOf(op) == { i \in 1..Len(calls) : calls[i][1] = op }

\* detection has scored the sample and its locals are still live
DetectionRan ==
    /\ pc \in {"selected", "returned", "raised"}
    /\ primary.source # "open"

\* detection has just chosen its best candidate, or found none
ScoringDone ==
    \/ pc = "selected"
    \/ pc = "raised" /\ primary.source = "detect"

\* C1 (as amended): the score of every profile is the sum of the weights of its
\* true signals; a profile extraction is invoked only for a profile whose score
\* is the maximum and only if that maximum is >= MIN_CONFIDENCE; below it no
\* extraction is invoked and a ValueError is raised, which names the best
\* candidate and its score when some profile scored above zero and names no
\* candidate when no signal matched at all.
C1_SelectionAboveThreshold ==
    DetectionRan =>
        LET mx == MaxScore(sample_text)
        IN  /\ best[1] = mx
            /\ mx > 0 => Score(best[2], Upper(sample_text)) = mx
            /\ \A i \in CallsOf("parse") : calls[i][2] = best[2] /\ mx >= MIN_CONFIDENCE
            /\ mx >= MIN_CONFIDENCE =>
                  \/ pc = "selected"
                  \/ primary.source = "profile" /\ CallsOf("parse") # {}
            /\ mx < MIN_CONFIDENCE =>
                  /\ pc = "raised"
                  /\ CallsOf("parse") = {}
                  /\ primary.kind = "ValueError"
                  /\ primary.source = "detect"
                  /\ primary.score = mx
                  /\ primary.detector = IF mx > 0 THEN best[2] ELSE ""

\* a detection failure below the threshold that names its candidate
C1_Witness ==
    /\ pc = "raised"
    /\ primary.source = "detect"
    /\ primary.score = 5
    /\ primary.detector = "confiar_credit_card"

\* C1 as stated: every detection failure names the best candidate and its score
C1_FailureNamesCandidate ==
    (pc = "raised" /\ primary.source = "detect") => primary.detector # ""

\* the phrases that are an institution name and nothing else
BankNames ==
    {"BANCOLOMBIA", "bancolombia_lower", "NU COLOMBIA", "LULO BANK", "DAVIVIENDA",
     "BANCO POPULAR", "FALABELLA", "BANCO DE BOGOTA", "BANCO DE BOGOTA_ACCENT",
     "CONFIAR"}

OnlyBankName(t) ==
    /\ t \subseteq BankNames \cup {"BLANK", "HOLA"}
    /\ Cardinality(t \cap BankNames) = 1

\* C2: a sample text whose only signal-matching content is one institution
\* name never selects a profile.
C2_BankNameAloneNeverSelects ==
    (DetectionRan /\ OnlyBankName(sample_text)) => best[1] < MIN_CONFIDENCE

\* s with its entries i and i + 1 exchanged
SwapNext(s, i) ==
    SubSeq(s, 1, i - 1) \o << s[i + 1], s[i] >> \o SubSeq(s, i + 2, Len(s))

RECURSIVE Reversed(_)
Reversed(s) == IF s = << >> THEN << >> ELSE Reversed(Tail(s)) \o << Head(s) >>

\* the positions followed by a profile of the same institution, whose
\* institution-name signal the two share
SameBankNeighbours ==
    { i \in 1..(Len(DETECTORS) - 1) :
        DetectorSignals[DETECTORS[i]][1] = DetectorSignals[DETECTORS[i + 1]][1] }

\* the registration order reversed, and with two such neighbours exchanged
RegistrationOrders ==
    {Reversed(DETECTORS)} \cup { SwapNext(DETECTORS, i) : i \in SameBankNeighbours }

Range(s) == { s[i] : i \in 1..Len(s) }

\* the first entry of dets whose score on the uppercased text u is sc
RECURSIVE FirstWithScore(_, _, _)
FirstWithScore(dets, u, sc) ==
    IF dets = << >> THEN ""
    ELSE IF Score(Head(dets), u) = sc THEN Head(dets)
    ELSE FirstWithScore(Tail(dets), u, sc)

\* C3: among the profiles with the maximal score the first registered is the
\* one selected; under another registration order every profile keeps its
\* score, and the selected profile differs only when both have the maximal score.
C3_TieBreakByRegistration ==
    (ScoringDone /\ best # NoBest) =>
        LET u == Upper(sample_text)
            scores == Range(ScoreAll(DETECTORS, u))
        IN  /\ best[2] = FirstWithScore(DETECTORS, u, best[1])
            /\ \A order \in RegistrationOrders :
                  LET other == BestOf(order, sample_text)
                  IN  /\ Range(ScoreAll(order, u)) = scores
                      /\ other[1] = best[1]
                      /\ other[2] = FirstWithScore(order, u, best[1])
                      /\ other[2] # best[2] => << best[1], other[2] >> \in scores

\* two profiles tie at the top, the first registered is selected, and the
\* reversed registration selects the other one
C3_Witness ==
    /\ pc = "selected"
    /\ best = << 6, "bogota_credit_card" >>
    /\ Score("bogota_savings", Upper(sample_text)) = 6
    /\ BestOf(Reversed(DETECTORS), sample_text)[2] = "bogota_savings"

\* C4: when the leading pages give no non-whitespace text, OCR sampling is
\* invoked and the profiles are scored on its text before a profile is selected
\* or a detection failure is raised.
C4_OcrBeforeFailure ==
    (extracted_chars = 0 /\ (pc \in {"score", "selected"} \/ DetectionRan)) =>
        /\ \E i \in CallsOf("_ocr_sample_text") :
              /\ \E j \in CallsOf("detect_and_parse") : j < i
              /\ \A j \in CallsOf("parse") : i < j
        /\ DetectionRan => best[1] = MaxScore(sample_text)

\* a blank document whose OCR text does not reach the threshold either
C4_Witness ==
    /\ extracted_chars = 0
    /\ pc = "raised"
    /\ primary.source = "detect"
    /\ sample_text # {}
    /\ CallsOf("_ocr_sample_text") # {}

StageCalls ==
    SelectSeq(calls, LAMBDA c : c[1] \in {"detect_and_parse",
                                          "try_parse_with_opendataloader"})

\* C5: the chain is primary stage, then generic fallback: the fallback starts
\* only after the primary stage failed, each stage is started at most once and
\* nothing is started once the fallback has its outcome.
C5_ChainOrderedOnce ==
    /\ StageCalls \in { << >>,
                        << Call("detect_and_parse", "") >>,
                        << Call("detect_and_parse", ""),
                           Call("try_parse_with_opendataloader", "") >> }
    /\ Cardinality(CallsOf("parse")) <= 1
    /\ Cardinality(CallsOf("subprocess.run")) <= 2
    /\ \A i \in CallsOf("try_parse_with_opendataloader") :
          /\ primary.kind \notin {"none", "ok"}
          /\ \A j \in CallsOf("parse") \cup CallsOf("_ocr_sample_text") : j < i
    /\ pc \in {"fb_done", "done"} =>
          calls[Len(calls)][1] \in {"parse", "try_parse_with_opendataloader",
                                    "subprocess.run"}

\* both stages ran, the fallback CLI twice, and the failure was returned
C5_Witness ==
    /\ pc = "done"
    /\ response.status = 422
    /\ Len(StageCalls) = 2
    /\ Cardinality(CallsOf("subprocess.run")) = 2

\* C6 (as amended): every failure of the primary stage causes
\* try_parse_with_opendataloader to be called before a failure is returned, and
\* the extractor CLI is run then exactly when the fallback is enabled in the
\* environment and its binary is found.
C6_FallbackAttemptedBeforeFailure ==
    /\ pc = "done" =>
          /\ response.status \in {200, 422, 500}
          /\ primary.kind # "ok" => CallsOf("try_parse_with_opendataloader") # {}
          /\ primary.kind = "ok" => response.status = 200
    /\ fallback.tried =>
          (CallsOf("subprocess.run") # {} \/ pc = "cli")
              = (fallback.enabled /\ fallback.binary)

\* a profile error answered with a failure although the CLI never ran
C6_Witness ==
    /\ pc = "done"
    /\ response.status = 500
    /\ primary.source = "profile"
    /\ fallback.binary
    /\ ~fallback.enabled
    /\ CallsOf("subprocess.run") = {}

\* C6 as stated: no failure is returned before the extractor has been run
C6_ExtractorRunBeforeFailure ==
    response.status \in {422, 500} => CallsOf("subprocess.run") # {}

HasField(meta) == meta # None /\ \E f \in DOMAIN meta : meta[f] # None

HasContent(st) ==
    \/ Len(st.transactions) >= 1
    \/ HasField(st.summary)
    \/ HasField(st.credit_card_metadata)
    \/ HasField(st.loan_metadata)

\* C7: every statement the fallback returns holds at least one transaction or
\* at least one metadata field with a value; a fallback that found neither
\* returns no statement and the request fails.
C7_FallbackNeverEmpty ==
    /\ \A i \in 1..Len(fallback.statements) : HasContent(fallback.statements[i])
    /\ (pc = "done" /\ fallback.tried) =>
          IF fallback.statements = << >>
          THEN response.status \in {422, 500}
          ELSE response.status = 200 /\ response.statements = fallback.statements

\* a statement accepted on metadata alone
C7_Witness ==
    /\ pc = "done"
    /\ response.status = 200
    /\ fallback.tried
    /\ response.statements[1].transactions = << >>
    /\ HasField(response.statements[1].summary)

\* the pages that carry a currency marker
MarkedPages == { p \in 1..Len(page_texts) : _detect_currency(page_texts[p]) # None }

\* the marker in force on page p: the one of the last marked page up to p
EffectiveCurrency(p) ==
    LET M == { q \in MarkedPages : q <= p }
    IN  IF M = {} THEN None
        ELSE _detect_currency(page_texts[CHOOSE q \in M : \A r \in M : r <= q])

\* the currency codes of the document, and the page on which each first shows
Codes == { Val(_detect_currency(page_texts[p])) : p \in MarkedPages }
FirstPageOf(code) ==
    CHOOSE p \in MarkedPages :
        /\ _detect_currency(page_texts[p]) = Some(code)
        /\ \A q \in MarkedPages : _detect_currency(page_texts[q]) = Some(code) => p <= q

\* position << p, k >> comes before << q, j >> in reading order
Precedes(p, k, q, j) == p < q \/ (p = q /\ k < j)

\* the transaction rows of the pages under `code` that follow a movements
\* header of a page under `code`
Positions ==
    UNION { { << p, k >> : k \in 1..Len(page_texts[p].lines) } : p \in 1..Len(page_texts) }

RowsOf(code) ==
    { << p, k >> \in Positions :
        /\ page_texts[p].lines[k] = "tx"
        /\ EffectiveCurrency(p) = Some(code)
        /\ \E q \in 1..p : \E j \in 1..Len(page_texts[q].lines) :
              /\ EffectiveCurrency(q) = Some(code)
              /\ page_texts[q].lines[j] = "hdr"
              /\ Precedes(q, j, p, k) }

Origins(st) == { << st.transactions[i].page, st.transactions[i].line >> :
                    i \in 1..Len(st.transactions) }

\* C8: the list parse_credit_card returns as its successful result is never
\* empty, a document without any currency marker included.
C8_SuccessNeverEmpty ==
    cc.pc = "returned" => Len(cc.results) >= 1

\* the pages that change the marker in force
MarkerChanges ==
    { p \in MarkedPages :
        p = 1 \/ EffectiveCurrency(p - 1) # _detect_currency(page_texts[p]) }

\* C9 as stated: one section, and one statement, for each change of the marker
C9_SectionPerMarkerChange ==
    cc.pc = "returned" => Len(cc.results) = Cardinality(MarkerChanges)

\* C9 (as amended): a new section starts each time a page carries a currency
\* code not met before, a code met again continues its existing section, and
\* one statement is returned per section, in order of first appearance, whose
\* transactions are exactly the rows found on that section's pages; a page
\* marked PESOS followed by a page marked DOLARES gives two statements, each
\* with rows of its own page only.
C9_OneStatementPerCurrency ==
    cc.pc = "returned" =>
        /\ Len(cc.results) = Cardinality(Codes)
        /\ \A i \in 1..Len(cc.results) :
              /\ cc.results[i].currency \in Codes
              /\ \A j \in 1..(i - 1) :
                    FirstPageOf(cc.results[j].currency) < FirstPageOf(cc.results[i].currency)
              /\ Origins(cc.results[i]) = RowsOf(cc.results[i].currency)
              /\ Len(cc.results[i].transactions) = Cardinality(RowsOf(cc.results[i].currency))
              /\ \A a \in 1..Len(cc.results[i].transactions) :
                    /\ cc.results[i].transactions[a].currency = cc.results[i].currency
                    /\ \A b \in 1..(a - 1) :
                          Precedes(cc.results[i].transactions[b].page,
                                   cc.results[i].transactions[b].line,
                                   cc.results[i].transactions[a].page,
                                   cc.results[i].transactions[a].line)
        /\ ( /\ Len(page_texts) = 2
             /\ _detect_currency(page_texts[1]) = Some("COP")
             /\ _detect_currency(page_texts[2]) = Some("USD") ) =>
                /\ Len(cc.results) = 2
                /\ \A tx \in Origins(cc.results[1]) : tx[1] = 1
                /\ \A tx \in Origins(cc.results[2]) : tx[1] = 2

\* pesos, dollars, pesos again: two statements, the first with rows of page 3
C9_Witness ==
    /\ cc.pc = "returned"
    /\ Len(page_texts) = 3
    /\ Cardinality(MarkerChanges) = 3
    /\ Len(cc.results) = 2
    /\ \E tx \in Origins(cc.results[1]) : tx[1] = 3
    /\ \E tx \in Origins(cc.results[2]) : tx[1] = 2

\* the card digits of the first page that shows a card number
FirstCard ==
    LET C == { p \in 1..Len(page_texts) : page_texts[p].card # None }
    IN  IF C = {} THEN None ELSE page_texts[CHOOSE p \in C : \A q \in C : p <= q].card

\* C10: a page before the first page with a currency marker is in no section
\* and gives no transaction to any statement, while a card number on such a
\* page is the card_last_four of every statement returned.
C10_PagesBeforeFirstMarker ==
    /\ cc.pc \in {"grouped", "returned"} =>
          \A i \in 1..Len(cc.sections) : \A a \in 1..Len(cc.sections[i].texts) :
              \E q \in MarkedPages : q <= cc.sections[i].texts[a]
    /\ cc.pc = "returned" =>
          \A i \in 1..Len(cc.results) :
              /\ \A tx \in Origins(cc.results[i]) : \E q \in MarkedPages : q <= tx[1]
              /\ cc.results[i].card_last_four = FirstCard

\* page 1 has no marker but a card number and a transaction row under a
\* header; page 2 opens the only section
C10_Witness ==
    /\ cc.pc = "returned"
    /\ Len(page_texts) >= 2
    /\ 1 \notin MarkedPages
    /\ 2 \in MarkedPages
    /\ page_texts[1].card = Some("1111")
    /\ page_texts[1].lines = << "hdr", "tx" >>
    /\ page_texts[2].card = Some("2222")
    /\ Len(cc.results) >= 1
    /\ \A i \in 1..Len(cc.results) : cc.results[i].card_last_four = Some("1111")

\* C11: every transaction a profile or the generic fallback makes of a row
\* has an amount >= 0 and carries its sign in direction only (INFLOW or
\* OUTFLOW), also when the amount is printed with a leading minus.
C11_AmountNeverNegative ==
    pc = "row_done" /\ output.status = "tx" =>
        /\ output.amount.n >= 0
        /\ output.direction \in {"INFLOW", "OUTFLOW"}

\* the labels whose value a loan profile stores in each numeric field
FieldLabels ==
       "bogota_loan" :>
          [final_balance |-> {"SALDO TOTAL A LA FECHA DE CORTE"},
           purchases_and_charges |-> {"+ CAPITAL"},
           interest_charged |-> {"+ INTERESES CORRIENTES"},
           initial_amount |-> {"MONTO APROBADO"},
           remaining_balance |-> {"SALDO TOTAL A LA FECHA DE CORTE"},
           interest_rate |-> {"TASA PACTADA E.A."},
           late_interest_rate |-> {"TASA INTERES MORA E.A."},
           total_payment_due |-> {"VALOR TOTAL A PAGAR"},
           installments_in_default |-> {}]
    @@ "bancolombia_loan" :>
          [final_balance |-> {"SALDO DE CREDITO"},
           purchases_and_charges |-> {},
           interest_charged |-> {},
           initial_amount |-> {"VALOR INICIAL"},
           remaining_balance |-> {"SALDO DE CREDITO"},
           interest_rate |-> {"TASA DE INTERES E.A."},
           late_interest_rate |-> {"TASA MORA A LA FECHA"},
           total_payment_due |-> {"TOTAL"},
           installments_in_default |-> {"N DE CUOTAS EN MORA"}]

\* the keywords the fallback searches for each numeric field
FallbackKeywords ==
    [summary |->
        [previous_balance |-> {"SALDO ANTERIOR", "SALDO INICIAL"},
         total_credits |-> {"TOTAL ABONOS", "TOTAL CReDITOS", "TOTAL CREDITOS"},
         total_debits |-> {"TOTAL CARGOS", "TOTAL DeBITOS", "TOTAL DEBITOS"},
         final_balance |-> {"SALDO ACTUAL", "SALDO FINAL", "NUEVO SALDO"},
         purchases_and_charges |-> {"COMPRAS DEL MES", "COMPRAS Y CARGOS"},
         interest_charged |-> {"INTERESES CORRIENTES", "INTEReS CORRIENTE", "INTERES CORRIENTE"}],
     credit_card_metadata |->
        [credit_limit |-> {"CUPO TOTAL", "CUPO DEFINIDO", "LiMITE DE CReDITO"},
         available_credit |-> {"CUPO DISPONIBLE", "DISPONIBLE"},
         minimum_payment |-> {"PAGO MiNIMO", "PAGO MINIMO"},
         total_payment_due |-> {"PAGO TOTAL", "TOTAL A PAGAR"}],
     loan_metadata |->
        [remaining_balance |-> {"SALDO CAPITAL", "SALDO PENDIENTE", "SALDO ACTUAL"},
         total_payment_due |-> {"VALOR A PAGAR", "PAGO TOTAL", "CUOTA DEL PERIODO"},
         interest_rate |-> {"TASA PACTADA", "TASA INTEReS", "TASA INTERES"},
         late_interest_rate |-> {"TASA MORA", "INTEReS MORA", "INTERES MORA"}]]

\* no line of the loan document carries a label of the field
LabelMissing(profile, lines, f) ==
    \A i \in 1..Len(lines) : lines[i].label \notin FieldLabels[profile][f]

\* no line of the text carries a keyword of the field
KeywordMissing(text, part, f) ==
    \A k \in FallbackKeywords[part][f] : FindKeyword(text, k) = 0

\* C12: a numeric field of the summary or of the credit-card / loan metadata
\* whose label does not occur in the document is null (None), never 0.
C12_MissingLabelGivesNull ==
    pc = "fields_done" =>
        IF input.profile = "opendataloader_fallback"
        THEN \A part \in DOMAIN FallbackKeywords :
                \A f \in DOMAIN FallbackKeywords[part] :
                    KeywordMissing(input.text, part, f) =>
                        (output[part] = None \/ output[part][f] = None)
        ELSE \A f \in DOMAIN output :
                LabelMissing(input.profile, input.lines, f) => output[f] = None

\* the year the statement period gives a month
PeriodYear(tx_month, period) ==
    IF period.from.year = period.to.year THEN period.from.year
    ELSE IF tx_month >= period.from.month THEN period.from.year
    ELSE period.to.year

\* C13: a transaction date printed without a year takes its year from the
\* statement period: the common year when the period lies in one year, else
\* the start year when the month is >= the start month and the end year when
\* it is smaller.
C13_YearFromPeriod ==
    pc = "dated" /\ input.period # None =>
        output = PeriodYear(input.tx_month, Val(input.period))


\* the savings sample: header, one dated line and the final-balance summary
SavingsSample ==
    << PeriodLine(Date(2025, 12, 1), Date(2026, 1, 31)),
       TxLine(15, 1, OneThousand, FiveThousand),
       SummaryLine("SALDO ACTUAL", FiveThousand) >>

\* C14: on the savings sample (header DESDE 2025/12/01 HASTA 2026/01/31, line
\* "15/01 PAGO NOMINA 1,000.00 5,000.00", summary SALDO ACTUAL $ 5,000.00) the
\* parser returns a statement with period_from 2025-12-01, exactly one
\* transaction dated 2026-01-15 of amount 1000.0, INFLOW, balance 5000.0, and
\* final_balance 5000.0.
C14_SavingsSample ==
    pc = "savings_done" /\ input.lines = SavingsSample =>
        /\ output.raised = ""
        /\ output.period_from = Some(Date(2025, 12, 1))
        /\ output.transactions =
               << [date |-> Date(2026, 1, 15), amount |-> Num(1000, 0),
                   direction |-> "INFLOW", balance |-> Num(5000, 0)] >>
        /\ output.final_balance = Some(Num(5000, 0))


\* C15: for each of the twelve registered profiles the password given to
\* detect_and_parse is handed to the selected profile without failure, and
\* every provider the profile opens receives that same password.
C15_PasswordHandOff ==
    pc # "handoff" =>
        /\ output.raised = ""
        /\ output.received = input.password
        /\ output.page_text \in {NotOpened, Opened(input.password)}
        /\ output.ocr \in {NotOpened, Opened(input.password)}


ExceedsTimeBound == input.runs[1].seconds > TimeoutSec

\* C17: an OCR or external-extractor invocation that exceeds its time bound
\* surfaces as a failure of its own kind: it is not turned into "no text",
\* it is not reported as another failure, and the caller is not kept waiting
\* past the bound of each command.
C17_TimeoutIsDistinct ==
    pc = "provider_done" /\ ExceedsTimeBound =>
        /\ output.kind = "timeout"
        /\ output.waited <= TimeoutSec * Len(input.runs)


\* the token without its leading sign
Unsigned(s) == IF s # << >> /\ Head(s) = "-" THEN Tail(s) ELSE s

\* the number a token is worth when the separator at position p is the decimal
\* point and every occurrence of `thousands` before it is dropped: the digits
\* before p and after p, the latter counted as decimals; no number when
\* anything but digits is left
ValueWithPointAt(s, p, thousands) ==
    LET body == Unsigned(s)
        whole == Remove(SubSeq(body, 1, p - 1), {thousands})
        frac == SubSeq(body, p + 1, Len(body))
        n == DigitsValue(whole \o frac, 0)
    IN  IF whole \o frac = << >> \/ ~AllIn(whole \o frac, Digits) THEN ValueError
        ELSE Normal(IF body # s THEN 0 - n ELSE n, Len(frac))

BothSeparators(s) == Count(s, ".") > 0 /\ Count(s, ",") > 0

\* a numeric token: digits and separators, one digit at least, after an
\* optional sign
IsNumericToken(s) ==
    /\ AllIn(Unsigned(s), Digits \cup {".", ","})
    /\ \E i \in 1..Len(Unsigned(s)) : Unsigned(s)[i] \in Digits

\* C18: a token holding both '.' and ',' is read with the rightmost of the
\* two as the decimal point and every occurrence of the other removed as a
\* thousands separator (1.234.567,89 and 1,234,567.89 are both 1234567.89).
C18_RightmostIsDecimal ==
    pc = "number" /\ IsNumericToken(input.token) /\ BothSeparators(input.token) =>
        LET body == Unsigned(input.token)
            comma == RFind(body, ",")
            dot == RFind(body, ".")
        IN  output = IF comma > dot
                     THEN ValueWithPointAt(input.token, comma, ".")
                     ELSE ValueWithPointAt(input.token, dot, ",")

\* the Colombian amount 1.234.567,89 read by the fallback normalizer
C18_Witness ==
    /\ pc = "number"
    /\ input.normalizer = "_parse_mixed_number"
    /\ input.token = << "1", ".", "2", "3", "4", ".", "5", "6", "7", ",", "8", "9" >>
    /\ output = Num(123456789, 2)


DotOnly(s) == Count(s, ".") > 0 /\ Count(s, ",") = 0

\* C19: a token holding '.' and no ',' is read with the dot as the decimal
\* point when it has exactly one dot followed by at most two digits, and with
\* every dot dropped as a thousands separator otherwise (7.554.272 is
\* 7554272), in each normalizer, 1.5 and .50 included.
C19_DotOnly ==
    pc = "number" /\ IsNumericToken(input.token) /\ DotOnly(input.token) =>
        LET body == Unsigned(input.token)
            dot == RFind(body, ".")
        IN  output = IF Count(body, ".") = 1 /\ Len(body) - dot <= 2
                     THEN ValueWithPointAt(input.token, dot, ",")
                     ELSE ValueWithPointAt(input.token, Len(body) + 1, ".")


\* every pair of adjacent characters of the token is identical across its
\* full, even length
FullyDoubled(t) ==
    /\ Len(t) >= 2
    /\ Len(t) % 2 = 0
    /\ \A k \in 1..(Len(t) \div 2) : t[2 * k - 1] = t[2 * k]

\* the token with every second character kept
Halved(t) == [k \in 1..(Len(t) \div 2) |-> t[2 * k]]

\* the line rebuilt from its tokens, collapsed when fully doubled, with the
\* whitespace runs as they were
CollapsedLine(line) ==
    LET parts == SplitOnWhitespace(line)
    IN  JoinParts([i \in 1..Len(parts) |->
                     IF parts[i][1] \in Whitespace THEN parts[i]
                     ELSE IF FullyDoubled(parts[i]) THEN Halved(parts[i])
                     ELSE parts[i]])

\* C20: the collapse halves a whitespace-delimited token exactly when it has
\* even length >= 2 and each pair of characters is equal, returns every
\* other token unchanged, and rebuilds the line with its whitespace runs
\* untouched (CCMMRR gives CMR, TT gives T, 1.969.900,00 stays).
C20_DoubledCollapse ==
    pc = "normalized" => output = CollapsedLine(input)


\* ---- multi-line merging
\* the lines handed to the merge and the records it returned
MergedRecords == IF pc = "merged" THEN Val(output) ELSE << >>

RecordStart(line) ==
    IF input.profile = "confiar" THEN TX_START_RE(line) ELSE TX_DATE_RE(line)

FooterMarker(line) ==
    IF input.profile = "confiar" THEN FOOTER_MARKER_RE(line) ELSE line.pago_minimo

\* record rec of a merge over lines starts at a record-start line and goes on
\* only with lines that are neither record starts nor footer markers and that
\* no record start and no footer marker separates from its first line
WellFormedRecord(lines, rec) ==
    /\ RecordStart(lines[rec[1]])
    /\ \A j \in 2..Len(rec) :
           \A k \in (rec[1] + 1)..rec[j] :
               ~RecordStart(lines[k]) /\ ~FooterMarker(lines[k])

\* C21: no line matching a footer marker is ever joined into a reconstructed
\* record: each record is one record-start line followed only by continuation
\* lines that precede the next record start and the first footer marker.
C21_NoFooterMerged ==
    \A r \in 1..Len(MergedRecords) : WellFormedRecord(input.lines, MergedRecords[r])

\* the same, for the Confiar reconstruction alone
ConfiarRecordsWellFormed ==
    pc = "merged" /\ input.profile = "confiar" => C21_NoFooterMerged

\* the lines of a record behind its first that are not the year of its date
Continuations(lines, rec) ==
    { j \in 2..Len(rec) : input.profile = "confiar" \/ ~YEAR_RE(lines[rec[j]]) }

\* C22: a merge absorbs at most a fixed number of continuation lines into one
\* record, however many continuation-like lines follow the record start.
C22_BoundedContinuation ==
    \A r \in 1..Len(MergedRecords) :
        Cardinality(Continuations(input.lines, MergedRecords[r])) <= max_continuation


\* ---- Confiar: the footer ends the reconstruction
\* the place of the first line of lines that holds a footer marker, or the
\* place behind the last line
FirstFooter(lines) ==
    LET marked == { i \in 1..Len(lines) : lines[i].length > 0 /\ lines[i].marker }
    IN  IF marked = {} THEN Len(lines) + 1
        ELSE CHOOSE i \in marked : \A j \in marked : i <= j

RecordHeads(records) == { records[r][1] : r \in 1..Len(records) }

\* C29: in the Confiar reconstruction, once the first footer-marker line is
\* met in the concatenated lines of all pages the record in progress is
\* flushed and no further record is emitted: every transaction-start line
\* before that footer heads a record, and no line from the footer on, on
\* whatever page, is part of a record or produces a transaction.
C29_FooterEndsReconstruction ==
    pc = "parsed" =>
        LET statement == Val(output)
            lines     == statement.all_lines
            footer    == FirstFooter(lines)
        IN  /\ RecordHeads(statement.records)
                   = { i \in 1..(footer - 1) : lines[i].start }
            /\ \A r \in 1..Len(statement.records) :
                   \A j \in 1..Len(statement.records[r]) :
                       statement.records[r][j] < footer
            /\ \A t \in 1..Len(statement.transactions) :
                   statement.transactions[t] < footer

\* a record was in progress when a footer came on the first page, and the
\* second page holds a transaction line with a movement
C29_Witness ==
    /\ pc = "parsed"
    /\ Len(input[1]) = 2
    /\ input[1][1] = TxStartLine
    /\ input[1][2] = FooterLine
    /\ input[2] = << TxStartLine >>
    /\ Val(output).records = << << 1 >> >>
    /\ Val(output).transactions = << 1 >>


\* ---- label-seen flags
\* the label-seen flag and the values read for the labels, in scan state o
LabelFlag(o) ==
    IF input.profile = "falabella" THEN o.st.paga_antes_del_seen ELSE o.st.expect # ""

LabelValues(o) ==
    IF input.profile = "falabella" THEN << o.st.payment_due_date >>
    ELSE << o.st.available_credit, o.st.credit_limit, o.st.minimum_payment,
            o.st.total_payment_due >>

LabelLine(line) ==
    IF input.profile = "falabella" THEN line.kind = "paga"
    ELSE line.label \in {"cupo", "pagos"}

\* the line carries a label and its value together (Confiar's "(=) Pago total")
SameLineValue(line) == input.profile = "confiar" /\ line.label = "total"

\* the scan takes the line at Val(output).i in this step
ScansLine == pc = "scanning" /\ pc' = "scanning" /\ Val(output').i = Val(output).i + 1

PaymentKeywords == {"PAGO", "ABONO", "DEVOLUCION"}

\* the credit-card profiles that read the direction off the amount's sign or
\* the description
KeywordProfiles == {"falabella_credit_card", "bogota_credit_card", "popular_credit_card"}

\* the amount as the profile's number parser reads it off the row
SourceAmount(r) ==
    IF r.profile = "falabella_credit_card"
    THEN falabella_parse_colombian_number(r.token)
    ELSE _parse_us_number(r.token)

CarriesKeyword(r) == Desc[r.desc].contains \cap PaymentKeywords # {}

CardTransaction ==
    pc = "row_done" /\ input.profile \in KeywordProfiles /\ output.status = "tx"

\* C24: in every credit-card profile a transaction's direction is INFLOW if
\* its parsed source amount is negative or its description carries a payment
\* keyword (PAGO / ABONO / DEVOLUCION), and OUTFLOW in every other case.
C24_DirectionRule ==
    CardTransaction =>
        output.direction =
            IF Negative(SourceAmount(input)) \/ CarriesKeyword(input)
            THEN "INFLOW" ELSE "OUTFLOW"

\* the half of the rule the three profiles share: no inflow without a
\* negative amount or a keyword
InflowOnlyBySignOrKeyword ==
    CardTransaction /\ output.direction = "INFLOW" =>
        Negative(SourceAmount(input)) \/ CarriesKeyword(input)


\* ---- the response after a failed primary stage
PrimaryFailed == primary.kind \notin {"none", "ok"}

KeyConfigured == input.configured # None /\ input.configured # Some("")

\* the handler runs: the upload is read, checked, written or stored
FileHandling ==
    \/ pc \in {"handler", "write", "try", "except", "finally", "save"}
    \/ output.tmp_path # "none"
    \/ output.saved

\* C26: a request to /parse or /save-unrecognized reaches file handling only
\* if PARSER_API_KEY is configured and the X-Parser-Key header equals it;
\* when the key is not configured every request is rejected with 503 whatever
\* its header, and when it is configured a missing or different header is
\* rejected with 403.
C26_KeyGuardsFileHandling ==
    /\ FileHandling => KeyConfigured /\ input.key = input.configured
    /\ pc = "completed" /\ ~KeyConfigured => output.status = 503
    /\ pc = "completed" /\ KeyConfigured /\ input.key # input.configured =>
           output.status = 403

\* an upload was stored for a request carrying the configured key
C26_Witness ==
    /\ pc = "completed"
    /\ input.endpoint = "save-unrecognized"
    /\ input.configured = Some("secret")
    /\ input.key = Some("secret")
    /\ output.saved


\* ---- de-duplication in the fallback
\* two transactions agree in date, lower-cased description, amount and direction
SameTransaction(a, b) ==
    /\ a.date = b.date
    /\ Lower[a.description] = Lower[b.description]
    /\ a.amount = b.amount
    /\ a.direction = b.direction

\* the transaction line k of the input parses to, if any
ParsedLine(k) == _parse_transaction_line(input.lines[k], input.statement_type)

\* the lines that parse to a transaction no earlier line parses to
FirstOccurrences ==
    { k \in 1..Len(input.lines) :
        /\ ParsedLine(k) # None
        /\ \A j \in 1..(k - 1) :
               ParsedLine(j) = None \/ ~SameTransaction(ParsedLine(j), ParsedLine(k)) }

NthFirstOccurrence(n) ==
    CHOOSE k \in FirstOccurrences :
        Cardinality({ j \in FirstOccurrences : j < k }) = n - 1

\* C28: the transaction list of the generic fallback never holds two
\* transactions with the same (date, lower-cased description, amount,
\* direction): of the lines that parse to the same key the first is kept,
\* and the list keeps the order of first occurrence.
C28_FirstOccurrenceKept ==
    pc = "deduped" =>
        LET parsed == Val(output)
        IN  /\ \A i \in 1..Len(parsed) : \A j \in (i + 1)..Len(parsed) :
                   ~SameTransaction(parsed[i], parsed[j])
            /\ Len(parsed) = Cardinality(FirstOccurrences)
            /\ \A n \in 1..Len(parsed) : parsed[n] = ParsedLine(NthFirstOccurrence(n))

\* the second and the fourth line repeat the first, in another case and
\* with another balance
C28_Witness ==
    /\ pc = "deduped"
    /\ input.lines = << "TX_NOMINA", "TX_nomina", "TX_COMPRA", "TX_NOMINA" >>
    /\ Len(Val(output)) = 2
    /\ Val(output)[1].description = "PAGO NOMINA"
    /\ Val(output)[1].balance = Some(5000)
    /\ Val(output)[2].description = "COMPRA TIENDA"


\* ---- Bancolombia credit card: sections by currency code
\* the pages under a currency code
PagesOf(code) == { p \in 1..Len(page_texts) : EffectiveCurrency(p) = Some(code) }

\* texts lists the pages of S once each, in page order
ListsInOrder(texts, S) ==
    /\ Len(texts) = Cardinality(S)
    /\ \A a \in 1..Len(texts) : texts[a] \in S
    /\ \A a \in 1..Len(texts) : \A b \in (a + 1)..Len(texts) : texts[a] < texts[b]

\* C30: the Bancolombia credit-card profile returns at most one statement per
\* distinct currency code, in order of first appearance; a page without a
\* marker joins the section of the most recent marker, the pages of a currency
\* that comes back after another one are appended to the section that
\* currency already has, and the period of a section stays the one of the
\* first page of its currency.
C30_SectionsByCurrency ==
    cc.pc = "returned" =>
        /\ Len(cc.results) = Len(cc.sections)
        /\ \A i \in 1..Len(cc.results) :
              LET code == cc.results[i].currency
              IN  /\ code \in Codes
                  /\ \A j \in 1..(i - 1) :
                        /\ cc.results[j].currency # code
                        /\ FirstPageOf(cc.results[j].currency) < FirstPageOf(code)
                  /\ cc.sections[i].currency = code
                  /\ ListsInOrder(cc.sections[i].texts, PagesOf(code))
                  /\ cc.results[i].period = page_texts[FirstPageOf(code)].period

\* pesos, dollars, pesos again: the third page is in the section of the first
\* and the period is still the one of page 1
C30_Witness ==
    /\ cc.pc = "returned"
    /\ Len(page_texts) = 3
    /\ _detect_currency(page_texts[1]) = Some("COP")
    /\ _detect_currency(page_texts[2]) = Some("USD")
    /\ _detect_currency(page_texts[3]) = Some("COP")
    /\ cc.sections[1].texts = << 1, 3 >>
    /\ cc.results[1].period = Some(1)
    /\ cc.results[2].period = Some(2)

=============================================================================
